---- MODULE Spec2Model ----
(***************************************************************************)
(* Charta ICP pipeline: the Code Aggregator (workers/pipeline/             *)
(* mine_cpt_codes.py) and the Scoring Engine (workers/pipeline/            *)
(* score_icp_production.py) as state machines.                             *)
(*                                                                         *)
(* Conventions                                                             *)
(*   - a HCPCS code is a sequence of one-character strings, so that        *)
(*     len(code), code[:5] and int(...) are computed as the code does;     *)
(*   - service counts are non-negative integers;                           *)
(*   - a ratio produced by the aggregator is the exact fraction            *)
(*     [num, den] of the two sums it divides;                              *)
(*   - a groupby(...).sum() result is a function from its group keys to    *)
(*     the sums; a DataFrame whose row order the code never reads is a     *)
(*     set or such a function, the pivot (sorted index) is a sequence.     *)
(***************************************************************************)
EXTENDS Integers, Sequences, FiniteSets, TLC

VARIABLES
    \* ---- Code Aggregator ----
    pecos_files_exist,  \* os.path.exists(PECOS_REASSIGN) and os.path.exists(PECOS_ENROLL)
    enrl,               \* PECOS enrollment extract: rows [NPI, ENRLMT_ID]
    reas,               \* PECOS reassignment extract: rows [REASGN_BNFT_ENRLMT_ID, RCV_BNFT_ENRLMT_ID]
    bridge,             \* [present, links]: load_pecos_bridge()'s return value (None = not present)
    consumed,           \* the rows of UTIL_FILE read so far, in file order
    org_chunks,         \* list of per-chunk E&M aggregates
    procedure_chunks,   \* list of per-chunk procedure aggregates
    total_rows,
    matched_rows,
    result,             \* [is_none, rows]: process_utilization_with_bridge's return value
    agg_pc,             \* "load" -> "chunks" -> "done", or "failed" when read_csv raises
    util_file_exists,   \* whether UTIL_FILE is there for pd.read_csv
    agg_output,         \* the aggregator's OUTPUT_FILE: NoFile until to_csv writes it
    \* ---- Scoring Engine ----
    row,                \* the OrgEnrichedRecord handed to calculate_row_score
    score,              \* the ScoreResult it returned
    stats,              \* the global PROCEDURE_DATA_QUALITY_STATS
    score_pc,           \* "ready" -> "scored"
    \* ---- the scoring curves called on their own ----
    curve_ratio,        \* the ratio handed to a scoring curve
    curve,              \* what the two curves returned for it
    \* ---- Scoring Engine: main() over a whole input table ----
    input_exists,       \* os.path.exists(INPUT_FILE)
    batch,              \* df: the rows of INPUT_FILE, in file order
    results,            \* the ScoreResults df.apply has produced so far
    output,             \* the scorer's OUTPUT_FILE: NoFile until to_csv writes it
    batch_pc            \* "start" -> "scoring" -> "saved", or "aborted"

aggVars == <<pecos_files_exist, enrl, reas, bridge, consumed, org_chunks,
             procedure_chunks, total_rows, matched_rows, result, agg_pc,
             util_file_exists, agg_output>>

scoreVars == <<row, score, stats, score_pc>>

curveVars == <<curve_ratio, curve>>

batchVars == <<input_exists, batch, results, output, batch_pc>>

vars == <<aggVars, scoreVars, curveVars, batchVars>>

--------------------------------------------------------------------------
(* Bounds of the model *)

\* longest utilization file (rows) the aggregator reads
MaxRows == 3

\* longest input table (records) one run of the scorer's main() reads
MaxBatch == 3

--------------------------------------------------------------------------
(* Generic helpers *)

Min(a, b) == IF a <= b THEN a ELSE b
Max(a, b) == IF a >= b THEN a ELSE b

RECURSIVE SumFn(_, _)
\* sum of f[k] over the keys k in S
SumFn(f, S) ==
    IF S = {} THEN 0
    ELSE LET k == CHOOSE x \in S : TRUE IN f[k] + SumFn(f, S \ {k})

RECURSIVE SortedSeq(_)
\* the integers of S in ascending order
SortedSeq(S) ==
    IF S = {} THEN <<>>
    ELSE LET m == CHOOSE x \in S : \A y \in S : x <= y
         IN <<m>> \o SortedSeq(S \ {m})

--------------------------------------------------------------------------
(* Code Aggregator: constants and code classification *)

c99203 == <<"9", "9", "2", "0", "3">>
c99213 == <<"9", "9", "2", "1", "3">>
c99204 == <<"9", "9", "2", "0", "4">>
c99205 == <<"9", "9", "2", "0", "5">>
c99214 == <<"9", "9", "2", "1", "4">>
c99215 == <<"9", "9", "2", "1", "5">>
c20610 == <<"2", "0", "6", "1", "0">>
cG0008 == <<"G", "0", "0", "0", "8">>

LEVEL_3_CODES == {c99203, c99213}
LEVEL_4_5_CODES == {c99204, c99205, c99214, c99215}
ALL_TARGET_CODES == LEVEL_3_CODES \cup LEVEL_4_5_CODES

DigitVal == [d \in {"0", "1", "2", "3", "4", "5", "6", "7", "8", "9"} |->
               CASE d = "0" -> 0 [] d = "1" -> 1 [] d = "2" -> 2 [] d = "3" -> 3
                 [] d = "4" -> 4 [] d = "5" -> 5 [] d = "6" -> 6 [] d = "7" -> 7
                 [] d = "8" -> 8 [] d = "9" -> 9]

RECURSIVE IntOf(_)
\* int(s) for a sequence of digit characters
IntOf(s) ==
    IF s = <<>> THEN 0
    ELSE 10 * IntOf(SubSeq(s, 1, Len(s) - 1)) + DigitVal[s[Len(s)]]

\* is_procedure_code: 10000 <= int(code[:5]) <= 69999; short or non-numeric -> False
is_procedure_code(code) ==
    IF Len(code) < 4 THEN FALSE
    ELSE LET head == SubSeq(code, 1, Min(5, Len(code)))
         IN IF \A i \in 1..Len(head) : head[i] \in DOMAIN DigitVal
            THEN 10000 <= IntOf(head) /\ IntOf(head) <= 69999
            ELSE FALSE

--------------------------------------------------------------------------
(* Code Aggregator: inputs *)

Providers == {1, 2}
Codes == {c99213, c99214, c20610, cG0008}
Counts == {4, 6}

\* the rows a utilization file may hold: (Rndrng_NPI, HCPCS_Cd, Tot_Srvcs);
\* evaluation rows carry either count, the other rows the larger one
ServiceRows ==
    { r \in [Rndrng_NPI : Providers, HCPCS_Cd : Codes, Tot_Srvcs : Counts] :
        r.HCPCS_Cd \in ALL_TARGET_CODES \/ r.Tot_Srvcs = 6 }

\* enrollment extract: individuals 1, 2 and organizations 10, 11
EnrollmentTable ==
    { [NPI |-> 1, ENRLMT_ID |-> "I1"], [NPI |-> 2, ENRLMT_ID |-> "I2"],
      [NPI |-> 10, ENRLMT_ID |-> "O1"], [NPI |-> 11, ENRLMT_ID |-> "O2"] }

Reassign(a, b) == [REASGN_BNFT_ENRLMT_ID |-> a, RCV_BNFT_ENRLMT_ID |-> b]

\* reassignment extracts: both individuals reassign to one organization; or
\* individual 1 reassigns to two organizations and individual 2 to an
\* enrollment id the enrollment extract does not hold
ReassignmentTables ==
    { {Reassign("I1", "O1"), Reassign("I2", "O1")},
      {Reassign("I1", "O1"), Reassign("I1", "O2"), Reassign("I2", "O9")} }

\* the extract read when the PECOS files are missing: nothing
NoTable == {}

--------------------------------------------------------------------------
(* Code Aggregator: load_pecos_bridge *)

\* reas.merge(enrl, REASGN_BNFT_ENRLMT_ID = ENRLMT_ID).merge(enrl,
\* RCV_BNFT_ENRLMT_ID = ENRLMT_ID)[['indiv_npi','org_npi']].drop_duplicates()
BridgeLinks(reasT, enrlT) ==
    { [indiv_npi |-> e1.NPI, org_npi |-> e2.NPI] :
        <<r, e1, e2>> \in
          { t \in reasT \X enrlT \X enrlT :
              /\ t[1].REASGN_BNFT_ENRLMT_ID = t[2].ENRLMT_ID
              /\ t[1].RCV_BNFT_ENRLMT_ID = t[3].ENRLMT_ID } }

NoBridge == [present |-> FALSE, links |-> {}]

load_pecos_bridge(exist, reasT, enrlT) ==
    IF ~exist THEN NoBridge
    ELSE [present |-> TRUE, links |-> BridgeLinks(reasT, enrlT)]

--------------------------------------------------------------------------
(* Code Aggregator: one chunk of process_utilization_with_bridge *)

\* chunk[chunk['HCPCS_Cd'].isin(ALL_TARGET_CODES)]
Filtered(chunk) == SelectSeq(chunk, LAMBDA r : r.HCPCS_Cd \in ALL_TARGET_CODES)

\* chunk[chunk['is_procedure']]
ProcedureFiltered(chunk) == SelectSeq(chunk, LAMBDA r : is_procedure_code(r.HCPCS_Cd))

\* the join C5 excludes: how='left', a row without a link kept under its own
\* Rndrng_NPI
KeyedLeft(frame, br) ==
    IF br.present
    THEN { <<p[1], p[2].org_npi>> :
             p \in { q \in (1..Len(frame)) \X br.links :
                       q[2].indiv_npi = frame[q[1]].Rndrng_NPI } }
         \cup { <<i, frame[i].Rndrng_NPI>> :
                  i \in { j \in 1..Len(frame) :
                            \A l \in br.links : l.indiv_npi # frame[j].Rndrng_NPI } }
    ELSE { <<i, frame[i].Rndrng_NPI>> : i \in 1..Len(frame) }

\* frame.merge(bridge, left_on='Rndrng_NPI', right_on='indiv_npi', how='inner'):
\* one joined row <<i, org>> per (row i, matching link); without a bridge the
\* row keeps its own Rndrng_NPI as 'npi'
Keyed(frame, br) ==
    IF br.present
    THEN { <<p[1], p[2].org_npi>> :
             p \in { q \in (1..Len(frame)) \X br.links :
                       q[2].indiv_npi = frame[q[1]].Rndrng_NPI } }
    ELSE { <<i, frame[i].Rndrng_NPI>> : i \in 1..Len(frame) }

RECURSIVE SumSrvcs(_, _)
\* ['Tot_Srvcs'].sum() over a set of joined rows
SumSrvcs(frame, joined) ==
    IF joined = {} THEN 0
    ELSE LET m == CHOOSE x \in joined : TRUE
         IN frame[m[1]].Tot_Srvcs + SumSrvcs(frame, joined \ {m})

\* the aggregation C1 excludes: the >= 10 floor applied to each chunk's partial
ChunkEvalAggFloored(chunk, br) ==
    LET frame == Filtered(chunk)
        joined == Keyed(frame, br)
        kept == { m \in joined :
                    SumSrvcs(frame, { x \in joined : x[2] = m[2] }) >= 10 }
        keys == { <<m[2], frame[m[1]].HCPCS_Cd>> : m \in kept }
    IN [k \in keys |->
          SumSrvcs(frame, { m \in kept : <<m[2], frame[m[1]].HCPCS_Cd>> = k })]

\* filtered.groupby([npi, 'HCPCS_Cd'])['Tot_Srvcs'].sum()
ChunkEvalAgg(chunk, br) ==
    LET frame == Filtered(chunk)
        joined == Keyed(frame, br)
        keys == { <<m[2], frame[m[1]].HCPCS_Cd>> : m \in joined }
    IN [k \in keys |->
          SumSrvcs(frame, { m \in joined : <<m[2], frame[m[1]].HCPCS_Cd>> = k })]

\* procedure_filtered.groupby(npi)['Tot_Srvcs'].sum()
ChunkProcAgg(chunk, br) ==
    LET frame == ProcedureFiltered(chunk)
        joined == Keyed(frame, br)
        keys == { m[2] : m \in joined }
    IN [k \in keys |-> SumSrvcs(frame, { m \in joined : m[2] = k })]

\* matched_rows += len(filtered) after the merge (bridge in use only)
ChunkMatched(chunk, br) ==
    IF br.present /\ Filtered(chunk) # <<>>
    THEN Cardinality(Keyed(Filtered(chunk), br))
    ELSE 0

--------------------------------------------------------------------------
(* Code Aggregator: finalization *)

RECURSIVE ConcatSum(_, _)
\* pd.concat(chunks).groupby(keys).sum() at key k
ConcatSum(chunks, k) ==
    IF chunks = <<>> THEN 0
    ELSE (IF k \in DOMAIN Head(chunks) THEN Head(chunks)[k] ELSE 0)
         + ConcatSum(Tail(chunks), k)

ConcatKeys(chunks) == UNION { DOMAIN chunks[j] : j \in 1..Len(chunks) }

\* full_df.groupby(['npi','HCPCS_Cd'])['Tot_Srvcs'].sum()
FinalAgg(chunks) == [k \in ConcatKeys(chunks) |-> ConcatSum(chunks, k)]

\* pivot(index='npi', columns='HCPCS_Cd').fillna(0), missing target columns = 0
PivotCell(final_agg, npi, code) ==
    IF <<npi, code>> \in DOMAIN final_agg THEN final_agg[<<npi, code>>] ELSE 0

\* pivot[codes].sum(axis=1)
LevelCount(final_agg, npi, codes) ==
    SumFn([c \in codes |-> PivotCell(final_agg, npi, c)], codes)

\* the ratio C2 excludes: procedure codes over evaluation codes alone
ProcedureOverEval(proc, eval) ==
    IF eval = 0 THEN [num |-> 0, den |-> 1]
    ELSE [num |-> proc, den |-> eval]

\* result['total_procedure_codes'] / (total_procedure_codes + total_eval_codes), fillna(0)
ProcedureRatio(proc, eval) ==
    IF proc + eval = 0 THEN [num |-> 0, den |-> 1]
    ELSE [num |-> proc, den |-> proc + eval]

\* the floor C3 excludes: strictly more than 10 evaluation codes
VolumeAbove(total_eval_codes) == total_eval_codes > 10

\* the volume floor: pivot[pivot['total_eval_codes'] >= 10]
VolumeFloor(total_eval_codes) == total_eval_codes >= 10

\* one output row of the pivot, with the procedure columns merged in
OrgRow(final_agg, proc_final, npi) ==
    LET l3 == LevelCount(final_agg, npi, LEVEL_3_CODES)
        l45 == LevelCount(final_agg, npi, LEVEL_4_5_CODES)
        total == l3 + l45
        tproc == IF npi \in DOMAIN proc_final THEN proc_final[npi] ELSE 0
    IN [npi |-> npi,
        undercoding_ratio |-> [num |-> l45, den |-> total],
        total_eval_codes |-> total,
        count_level_3 |-> l3,
        count_level_4_5 |-> l45,
        total_procedure_codes |-> tproc,
        procedure_ratio |-> ProcedureRatio(tproc, total)]

NoneResult == [is_none |-> TRUE, rows |-> <<>>]

\* everything after the chunk loop
Finalize(orgs, procs) ==
    IF orgs = <<>> THEN NoneResult
    ELSE LET final_agg == FinalAgg(orgs)
             proc_final == FinalAgg(procs)
             index == SortedSeq({ k[1] : k \in DOMAIN final_agg })
             pivot == [i \in 1..Len(index) |-> OrgRow(final_agg, proc_final, index[i])]
         IN [is_none |-> FALSE,
             rows |-> SelectSeq(pivot, LAMBDA r : VolumeFloor(r.total_eval_codes))]

\* an OUTPUT_FILE nothing has written
NoFile == [written |-> FALSE, table |-> <<>>]

\* main(): org_metrics.to_csv(OUTPUT_FILE, index=False) if org_metrics is not None
save_metrics_always(org_metrics, file) == [written |-> TRUE, table |-> org_metrics.rows]
save_metrics(org_metrics, file) ==
    IF org_metrics.is_none THEN file
    ELSE [written |-> TRUE, table |-> org_metrics.rows]

--------------------------------------------------------------------------
(* Scoring Engine: numbers and text *)

(* A ratio is an integer number of thousandths (0.45 is 450), a margin an     *)
(* integer number of ten-thousandths (0.05 is 500), a                         *)
(* score an integer number of thousandths of a point (40 points is 40000),    *)
(* a code volume or a dollar amount an integer.  NaN is the missing value:    *)
(* every comparison the code makes with it is guarded as in the code.         *)
NaN == -999999

isna(x) == x = NaN
notna(x) == x # NaN

\* n/d rounded to the nearest integer, halves to even (n >= 0, d > 0)
RoundDiv(n, d) ==
    LET q == n \div d
        r == n % d
    IN IF 2 * r < d THEN q
       ELSE IF 2 * r > d THEN q + 1
       ELSE IF q % 2 = 0 THEN q ELSE q + 1

\* round(x, 1) of the score n/d thousandths of a point
Round1(n, d) == 100 * RoundDiv(n, 100 * d)

\* the missing string (a NaN in a text column)
NaNStr == <<"nan">>

LowerCase == {"a", "b", "c", "d", "e", "f", "g", "h", "i", "j", "k", "l", "m", "n", "o",
              "p", "q", "r", "s", "t", "u", "v", "w", "x", "y", "z"}

UpperOf ==
    [c \in LowerCase |->
       CASE c = "a" -> "A" [] c = "b" -> "B" [] c = "c" -> "C" [] c = "d" -> "D"
         [] c = "e" -> "E" [] c = "f" -> "F" [] c = "g" -> "G" [] c = "h" -> "H"
         [] c = "i" -> "I" [] c = "j" -> "J" [] c = "k" -> "K" [] c = "l" -> "L"
         [] c = "m" -> "M" [] c = "n" -> "N" [] c = "o" -> "O" [] c = "p" -> "P"
         [] c = "q" -> "Q" [] c = "r" -> "R" [] c = "s" -> "S" [] c = "t" -> "T"
         [] c = "u" -> "U" [] c = "v" -> "V" [] c = "w" -> "W" [] c = "x" -> "X"
         [] c = "y" -> "Y" [] c = "z" -> "Z"]

\* str.upper()
Upper(s) == [i \in 1..Len(s) |-> IF s[i] \in DOMAIN UpperOf THEN UpperOf[s[i]] ELSE s[i]]

\* sub in s
Contains(s, sub) ==
    \E i \in 0..(Len(s) - Len(sub)) : SubSeq(s, i + 1, i + Len(sub)) = sub

\* s.startswith(p)
StartsWith(s, p) == Len(s) >= Len(p) /\ SubSeq(s, 1, Len(p)) = p

RECURSIVE SplitOn(_, _)
\* s.split(sep)
SplitOn(s, sep) ==
    IF \A i \in 1..Len(s) : s[i] # sep THEN <<s>>
    ELSE LET i == CHOOSE x \in 1..Len(s) : s[x] = sep /\ \A j \in 1..(x - 1) : s[j] # sep
         IN <<SubSeq(s, 1, i - 1)>> \o SplitOn(SubSeq(s, i + 1, Len(s)), sep)

\* s.strip(): s without its leading and trailing blanks
Strip(s) ==
    LET inked == { i \in 1..Len(s) : s[i] # " " }
    IN IF inked = {} THEN <<>>
       ELSE SubSeq(s, CHOOSE i \in inked : \A j \in inked : i <= j,
                      CHOOSE i \in inked : \A j \in inked : i >= j)

--------------------------------------------------------------------------
(* Scoring Engine: constants *)

UNDERCODING_SEVERE == 150
UNDERCODING_NATIONAL_AVG == 450
PROCEDURE_DEFICIT_THRESHOLD == 200

p213E == <<"2", "1", "3", "E">>
p207X == <<"2", "0", "7", "X">>
p207W == <<"2", "0", "7", "W">>
p207N == <<"2", "0", "7", "N">>
p204C == <<"2", "0", "4", "C">>
p204D == <<"2", "0", "4", "D">>
p208200 == <<"2", "0", "8", "2", "0", "0">>
p207V == <<"2", "0", "7", "V">>
p207T == <<"2", "0", "7", "T">>

\* SPECIALTY_PROCEDURE_TARGETS and TAXONOMY_TO_SPECIALTY, in dictionary order
SPECIALTY_PROCEDURE_TARGETS ==
    << [prefix |-> p213E, expected |-> 600, specialty |-> "Podiatry"],
       [prefix |-> p207X, expected |-> 500, specialty |-> "Orthopedics"],
       [prefix |-> p207W, expected |-> 600, specialty |-> "Ophthalmology"],
       [prefix |-> p207N, expected |-> 500, specialty |-> "Dermatology"],
       [prefix |-> p204C, expected |-> 400, specialty |-> "Sports Medicine"],
       [prefix |-> p204D, expected |-> 400, specialty |-> "Surgical Oncology"],
       [prefix |-> p208200, expected |-> 400, specialty |-> "Plastic Surgery"],
       [prefix |-> p207V, expected |-> 500, specialty |-> "General Surgery"],
       [prefix |-> p207T, expected |-> 450, specialty |-> "Pain Medicine"] >>

Specialties == { SPECIALTY_PROCEDURE_TARGETS[k].specialty : k \in 1..Len(SPECIALTY_PROCEDURE_TARGETS) }

kBEHAVIORAL == <<"B", "E", "H", "A", "V", "I", "O", "R", "A", "L">>
kPSYCH == <<"P", "S", "Y", "C", "H">>
kMENTAL_HEALTH == <<"M", "E", "N", "T", "A", "L", " ", "H", "E", "A", "L", "T", "H">>
kCOUNSELING == <<"C", "O", "U", "N", "S", "E", "L", "I", "N", "G">>
kTHERAPY == <<"T", "H", "E", "R", "A", "P", "Y">>

behavioral_keywords == {kBEHAVIORAL, kPSYCH, kMENTAL_HEALTH, kCOUNSELING, kTHERAPY}

--------------------------------------------------------------------------
(* Scoring Engine: taxonomy lookup and procedure alignment *)

\* [c.strip() for c in str(taxonomy_str).split(';') if c.strip()]
TaxonomyCodes(taxonomy_str) ==
    LET parts == SplitOn(taxonomy_str, ";")
    IN SelectSeq([i \in 1..Len(parts) |-> Strip(parts[i])], LAMBDA c : c # <<>>)

\* the first table entry whose prefix starts code, 0 if none
PrefixIndex(code) ==
    LET hits == { k \in 1..Len(SPECIALTY_PROCEDURE_TARGETS) :
                    StartsWith(code, SPECIALTY_PROCEDURE_TARGETS[k].prefix) }
    IN IF hits = {} THEN 0 ELSE CHOOSE k \in hits : \A j \in hits : k <= j

\* the table entry of the first code of the string that matches a prefix, 0 if none
TaxonomyMatch(taxonomy_str) ==
    IF taxonomy_str = NaNStr \/ taxonomy_str = <<>> THEN 0
    ELSE LET codes == TaxonomyCodes(taxonomy_str)
             hits == { i \in 1..Len(codes) : PrefixIndex(codes[i]) # 0 }
         IN IF hits = {} THEN 0
            ELSE PrefixIndex(codes[CHOOSE i \in hits : \A j \in hits : i <= j])

\* get_expected_procedure_ratio: the expected ratio, NaN for None
get_expected_procedure_ratio(taxonomy_str) ==
    IF TaxonomyMatch(taxonomy_str) = 0 THEN NaN
    ELSE SPECIALTY_PROCEDURE_TARGETS[TaxonomyMatch(taxonomy_str)].expected

\* get_specialty_name
get_specialty_name(taxonomy_str) ==
    IF taxonomy_str = NaNStr \/ taxonomy_str = <<>> THEN "Unknown"
    ELSE IF TaxonomyMatch(taxonomy_str) = 0 THEN "Other Specialty"
    ELSE SPECIALTY_PROCEDURE_TARGETS[TaxonomyMatch(taxonomy_str)].specialty

NoAlignment == [score |-> 0, reason |-> "", event |-> "none"]

\* expected_ratio - procedure_ratio is a binary64 subtraction: at ratios of whole
\* thousandths its result is on the same side of 0.20 and of 0.40 as the exact
\* difference, except that 0.6 - 0.4 = 0.19999999999999996 and
\* 0.6 - 0.2 = 0.39999999999999997 fall just below
deficit_falls_below(expected_ratio, procedure_ratio) ==
    expected_ratio = 600 /\ procedure_ratio \in {200, 400}

\* deficit >= threshold, for the float deficit
deficit_at_least(expected_ratio, procedure_ratio, threshold) ==
    \/ expected_ratio - procedure_ratio > threshold
    \/ /\ expected_ratio - procedure_ratio = threshold
       /\ ~deficit_falls_below(expected_ratio, procedure_ratio)

\* score_procedure_alignment: (pain_score, reason) and the data-quality event
\* it records ("none" when the counters are not touched)
score_procedure_alignment(r) ==
    IF r.segment_label \notin {"Private Practice", "Specialty Group"} THEN NoAlignment
    ELSE LET expected_ratio == get_expected_procedure_ratio(r.taxonomy)
             procedure_ratio == IF isna(r.procedure_ratio) THEN 0 ELSE r.procedure_ratio
             total_procedure_codes ==
                 IF isna(r.total_procedure_codes) THEN 0 ELSE r.total_procedure_codes
             total_eval_codes == IF isna(r.total_eval_codes) THEN 0 ELSE r.total_eval_codes
             total_claims == total_procedure_codes + total_eval_codes
             deficit == expected_ratio - procedure_ratio
         IN IF isna(expected_ratio) THEN NoAlignment
            ELSE IF total_claims < 50
            THEN [score |-> 0, reason |-> "", event |-> "low_volume"]
            ELSE IF isna(r.procedure_ratio)
            THEN [score |-> 0, reason |-> "", event |-> "missing_data"]
            ELSE IF deficit_at_least(expected_ratio, procedure_ratio,
                                     PROCEDURE_DEFICIT_THRESHOLD)
            THEN IF deficit_at_least(expected_ratio, procedure_ratio, 400)
                 THEN [score |-> 10000, reason |-> "Severe procedure deficit",
                       event |-> "has_data"]
                 ELSE [score |-> Round1(4000 * 200
                                          + (deficit - PROCEDURE_DEFICIT_THRESHOLD) * 6000,
                                        200),
                       reason |-> "Procedure deficit", event |-> "has_data"]
            ELSE [score |-> 0, reason |-> "", event |-> "has_data"]

Bump(f, k) == [x \in DOMAIN f \cup {k} |-> IF x = k THEN (IF k \in DOMAIN f THEN f[k] ELSE 0) + 1 ELSE f[x]]

\* the counting C29 excludes: a missing ratio counted even under 50 claims
StatsAfter_missing_too(st, r) ==
    LET ev == score_procedure_alignment(r).event
        name == get_specialty_name(r.taxonomy)
        missing == ev = "missing_data" \/ (ev = "low_volume" /\ isna(r.procedure_ratio))
    IN IF ev = "none" THEN st
       ELSE [procedure_heavy_specialties |-> st.procedure_heavy_specialties + 1,
             has_data |-> st.has_data + (IF ev = "has_data" THEN 1 ELSE 0),
             missing_data |-> st.missing_data + (IF missing THEN 1 ELSE 0),
             low_volume |-> st.low_volume + (IF ev = "low_volume" THEN 1 ELSE 0),
             by_specialty |-> Bump(st.by_specialty, name),
             missing_by_specialty |->
                 IF missing THEN Bump(st.missing_by_specialty, name)
                 ELSE st.missing_by_specialty]
\* the counters after score_procedure_alignment(r) has run
StatsAfter(st, r) ==
    LET ev == score_procedure_alignment(r).event
        name == get_specialty_name(r.taxonomy)
    IN IF ev = "none" THEN st
       ELSE [procedure_heavy_specialties |-> st.procedure_heavy_specialties + 1,
             has_data |-> st.has_data + (IF ev = "has_data" THEN 1 ELSE 0),
             missing_data |-> st.missing_data + (IF ev = "missing_data" THEN 1 ELSE 0),
             low_volume |-> st.low_volume + (IF ev = "low_volume" THEN 1 ELSE 0),
             by_specialty |-> Bump(st.by_specialty, name),
             missing_by_specialty |->
                 IF ev = "missing_data" THEN Bump(st.missing_by_specialty, name)
                 ELSE st.missing_by_specialty]

\* PROCEDURE_DATA_QUALITY_STATS as the module defines it
ZeroStats ==
    [procedure_heavy_specialties |-> 0, has_data |-> 0, missing_data |-> 0,
     low_volume |-> 0, by_specialty |-> <<>>, missing_by_specialty |-> <<>>]

--------------------------------------------------------------------------
(* Scoring Engine: track selection and the scoring curves *)

\* the precedence C6 excludes: the segment decides before the name is read
detect_track_by_segment(r) ==
    LET org_name == Upper(r.org_name)
    IN IF r.segment_label = "Behavioral Health" THEN "BEHAVIORAL"
       ELSE IF r.segment_label \in {"Home Health", "Hospital"} THEN "POST_ACUTE"
       ELSE IF \E keyword \in behavioral_keywords : Contains(org_name, keyword)
       THEN "BEHAVIORAL"
       ELSE "AMBULATORY"

\* detect_track
detect_track(r) ==
    LET org_name == Upper(r.org_name)
    IN IF r.segment_label = "Behavioral Health" THEN "BEHAVIORAL"
       ELSE IF \E keyword \in behavioral_keywords : Contains(org_name, keyword)
       THEN "BEHAVIORAL"
       ELSE IF r.segment_label \in {"Home Health", "Hospital"} THEN "POST_ACUTE"
       ELSE "AMBULATORY"

\* the curve C15 excludes: the floor score of 10 at and above the national average
score_undercoding_floored(ratio) ==
    IF isna(ratio) \/ ratio <= 0
    THEN [score |-> 10000, reason |-> "No undercoding data available"]
    ELSE IF ratio >= UNDERCODING_NATIONAL_AVG
    THEN [score |-> 10000, reason |-> "Strong E&M documentation"]
    ELSE IF ratio <= UNDERCODING_SEVERE
    THEN [score |-> 40000, reason |-> "Severe undercoding"]
    ELSE [score |-> Round1(40000 * (UNDERCODING_NATIONAL_AVG - UNDERCODING_SEVERE)
                             - (ratio - UNDERCODING_SEVERE) * 25000,
                           UNDERCODING_NATIONAL_AVG - UNDERCODING_SEVERE),
          reason |-> "Undercoding ratio"]

\* score_undercoding_continuous: (score, reason)
score_undercoding_continuous(ratio) ==
    IF isna(ratio) \/ ratio <= 0
    THEN [score |-> 10000, reason |-> "No undercoding data available"]
    ELSE IF ratio >= UNDERCODING_NATIONAL_AVG
    THEN [score |-> 0, reason |-> "Strong E&M documentation"]
    ELSE IF ratio <= UNDERCODING_SEVERE
    THEN [score |-> 40000, reason |-> "Severe undercoding"]
    ELSE [score |-> Round1(40000 * (UNDERCODING_NATIONAL_AVG - UNDERCODING_SEVERE)
                             - (ratio - UNDERCODING_SEVERE) * 25000,
                           UNDERCODING_NATIONAL_AVG - UNDERCODING_SEVERE),
          reason |-> "Undercoding ratio"]

\* the curve C16 excludes: the audit-risk ramp as steep as the undercoding ramp
\* (0.10 wide instead of 0.15) and cut at 40
score_psych_risk_steep(ratio) ==
    IF isna(ratio) \/ ratio <= 0
    THEN [score |-> 10000, reason |-> "No psych risk data available"]
    ELSE IF ratio <= 300
    THEN [score |-> 40000, reason |-> "Severe therapy undercoding - Revenue Leakage"]
    ELSE IF ratio >= 750
    THEN [score |-> 40000, reason |-> "Severe psych audit risk - Compliance Threat"]
    ELSE IF 400 <= ratio /\ ratio <= 600
    THEN [score |-> 10000, reason |-> "Balanced therapy coding - Appropriate"]
    ELSE IF ratio < 400
    THEN [score |-> Round1(10000 * (400 - 300) + (400 - ratio) * 30000, 400 - 300),
          reason |-> "Moderate therapy undercoding"]
    ELSE [score |-> Min(40000, Round1(10000 * 100 + (ratio - 600) * 30000, 100)),
          reason |-> "Elevated psych audit risk"]

\* score_psych_risk_continuous: (score, reason)
score_psych_risk_continuous(ratio) ==
    IF isna(ratio) \/ ratio <= 0
    THEN [score |-> 10000, reason |-> "No psych risk data available"]
    ELSE IF ratio <= 300
    THEN [score |-> 40000, reason |-> "Severe therapy undercoding - Revenue Leakage"]
    ELSE IF ratio >= 750
    THEN [score |-> 40000, reason |-> "Severe psych audit risk - Compliance Threat"]
    ELSE IF 400 <= ratio /\ ratio <= 600
    THEN [score |-> 10000, reason |-> "Balanced therapy coding - Appropriate"]
    ELSE IF ratio < 400
    THEN [score |-> Round1(10000 * (400 - 300) + (400 - ratio) * 30000, 400 - 300),
          reason |-> "Moderate therapy undercoding"]
    ELSE [score |-> Round1(10000 * (750 - 600) + (ratio - 600) * 30000, 750 - 600),
          reason |-> "Elevated psych audit risk"]

--------------------------------------------------------------------------
(* Scoring Engine: calculate_row_score, the pain sub-score *)

\* undercoding = row.get('undercoding_ratio', 0); NaN -> 0
undercoding_of(r) == IF isna(r.undercoding_ratio) THEN 0 ELSE r.undercoding_ratio

\* psych_risk = row.get('psych_risk_ratio', 0); NaN -> 0
psych_risk_of(r) == IF isna(r.psych_risk_ratio) THEN 0 ELSE r.psych_risk_ratio

\* total_psych_codes = row.get('total_psych_codes', 0); NaN -> 0
total_psych_of(r) == IF isna(r.total_psych_codes) THEN 0 ELSE r.total_psych_codes

\* total_eval_codes = row.get('total_eval_codes', 0); NaN -> 0
total_eval_of(r) == IF isna(r.total_eval_codes) THEN 0 ELSE r.total_eval_codes

\* eval_codes_available = pd.notna(total_eval_codes) and total_eval_codes > 0
eval_codes_available(r) == notna(r.total_eval_codes) /\ r.total_eval_codes > 0

\* real_revenue: the first revenue column that holds a value
real_revenue_of(r) ==
    IF notna(r.total_revenue) THEN r.total_revenue
    ELSE IF notna(r.hospital_total_revenue) THEN r.hospital_total_revenue
    ELSE IF notna(r.fqhc_revenue) THEN r.fqhc_revenue
    ELSE IF notna(r.hha_revenue) THEN r.hha_revenue
    ELSE r.real_medicare_revenue

\* the downgrade C17 excludes: a Hospital at exactly $10,000,000 downgraded too
corrected_segment_inclusive(r) ==
    IF /\ r.segment_label = "Hospital"
       /\ notna(real_revenue_of(r))
       /\ real_revenue_of(r) <= 10000000
    THEN "Ambulatory Center"
    ELSE r.segment_label

\* the revenue-based downgrade of Hospitals
corrected_segment(r) ==
    IF /\ r.segment_label = "Hospital"
       /\ notna(real_revenue_of(r))
       /\ real_revenue_of(r) < 10000000
    THEN "Ambulatory Center"
    ELSE r.segment_label

\* '{x:.1f}' of a score: tenths of a point
Fmt1(x) == RoundDiv(x, 100)

\* '{x:.2f}' of a ratio: hundredths
Fmt2(x) == RoundDiv(x, 10)

\* '{x:.1%}' of a margin: tenths of a percent
FmtPct1(x) == RoundDiv(x, 10)

\* one entry of a reasoning list: the '+N pts' number (NaN when the entry
\* is a parenthesised remark), its text and the remark appended to it
Reason(pts, text, note) == [pts |-> pts, text |-> text, note |-> note]

\* the share test C7 excludes: a missing evaluation volume read as 0, so that
\* psych codes alone make a share of 100%
psych_percentage_unguarded(r) ==
    IF total_psych_of(r) + total_eval_of(r) > 0
    THEN 5 * total_psych_of(r) > total_psych_of(r) + total_eval_of(r)
    ELSE FALSE

\* psych_percentage > 0.20 in the pain computation: the share is 0 when the
\* evaluation volume is missing or not positive
psych_percentage_over_20(r) ==
    IF ~eval_codes_available(r) THEN FALSE
    ELSE IF total_psych_of(r) + total_eval_of(r) > 0
    THEN 5 * total_psych_of(r) > total_psych_of(r) + total_eval_of(r)
    ELSE FALSE

\* the therapy relevance gate of the pain computation
therapy_gate(r) == psych_percentage_over_20(r) /\ total_psych_of(r) >= 100

\* pain_therapy, reason_therapy of the AMBULATORY branch
gated_therapy_pain(r) ==
    IF therapy_gate(r) /\ psych_risk_of(r) > 0
    THEN score_psych_risk_continuous(psych_risk_of(r))
    ELSE [score |-> 0, reason |-> ""]

\* the branch C13 excludes: the BEHAVIORAL pain taken through the relevance
\* gate of the AMBULATORY track
behavioral_pain_gated(r) ==
    LET base == gated_therapy_pain(r)
    IN [pain |-> base.score,
        reasoning |-> <<Reason(Fmt1(base.score), base.reason, "")>>,
        confidence |-> IF base.score >= 20000 THEN 40 ELSE 0,
        pain_undercoding |-> 0, pain_therapy |-> 0, pain_procedure_alignment |-> 0]

\* the BEHAVIORAL branch of the pain sub-score
behavioral_pain(r) ==
    LET base == score_psych_risk_continuous(psych_risk_of(r))
        total_psych == r.total_psych_codes
        bonus == notna(total_psych) /\ total_psych > 500
        addon_bonus == Min(5000, total_psych * 5)
        pain == IF bonus THEN Min(40000, base.score + addon_bonus) ELSE base.score
    IN [pain |-> pain,
        reasoning |-> <<Reason(Fmt1(base.score), base.reason, "")>>
                      \o (IF bonus
                          THEN <<Reason(Fmt1(addon_bonus), "High psych volume = documentation lift", "")>>
                          ELSE <<>>),
        confidence |-> IF pain >= 20000 THEN 40 ELSE 0,
        pain_undercoding |-> 0, pain_therapy |-> 0, pain_procedure_alignment |-> 0]

\* the branch C24 excludes: a margin of exactly 0.05 still on the ramp
post_acute_pain_inclusive(r) ==
    LET real_margin == r.net_margin
        ramp == Round1(25000 * 500 + (500 - real_margin) * 15000, 500)
        pain == IF isna(real_margin) THEN 10000
                ELSE IF real_margin < 0 THEN 40000
                ELSE IF real_margin <= 500 THEN ramp
                ELSE 15000
    IN [pain |-> pain,
        reasoning |-> <<Reason(Fmt1(pain), "Low margin", "")>>,
        confidence |-> IF notna(real_margin) THEN 30 ELSE 0,
        pain_undercoding |-> 0, pain_therapy |-> 0, pain_procedure_alignment |-> 0]
\* the POST_ACUTE branch of the pain sub-score
post_acute_pain(r) ==
    LET real_margin == r.net_margin
        ramp == Round1(25000 * 500 + (500 - real_margin) * 15000, 500)
        pain == IF isna(real_margin) THEN 10000
                ELSE IF real_margin < 0 THEN 40000
                ELSE IF real_margin < 500 THEN ramp
                ELSE 15000
        text == IF isna(real_margin) THEN "No margin data"
                ELSE IF real_margin < 0 THEN "Negative margin"
                ELSE IF real_margin < 500 THEN "Low margin"
                ELSE "Stable margin"
    IN [pain |-> pain,
        reasoning |-> <<Reason(Fmt1(pain), text, "")>>,
        confidence |-> IF notna(real_margin) THEN 30 ELSE 0,
        pain_undercoding |-> 0, pain_therapy |-> 0, pain_procedure_alignment |-> 0]

\* the combination C14 excludes: the procedure add-on layered without the cap
ambulatory_combine_uncapped(u, t, a) ==
    LET therapy_primary == t.score > u.score
        primary == IF therapy_primary THEN t.score ELSE u.score
        pain == IF a.score > 0 THEN primary + a.score ELSE primary
    IN [pain |-> pain,
        reasoning |->
            (IF therapy_primary
             THEN <<Reason(Fmt1(primary), t.reason, "(therapy coding dominates)"),
                    Reason(NaN, "Alternative: E&M undercoding", "")>>
             ELSE <<Reason(Fmt1(primary), u.reason, "")>>
                  \o (IF t.score > 10000
                      THEN <<Reason(NaN, "Secondary: therapy coding", "")>>
                      ELSE <<>>))
            \o (IF a.score > 0 THEN <<Reason(Fmt1(a.score), a.reason, "")>> ELSE <<>>),
        confidence |-> IF pain >= 30000 THEN 50 ELSE 0,
        pain_undercoding |-> u.score, pain_therapy |-> t.score,
        pain_procedure_alignment |-> a.score]

\* the AMBULATORY branch once its three signals u (undercoding), t (therapy)
\* and a (procedure alignment) are scored: dominant signal plus add-on
ambulatory_combine(u, t, a) ==
    LET therapy_primary == t.score > u.score
        primary == IF therapy_primary THEN t.score ELSE u.score
        pain == IF a.score > 0 THEN Min(40000, primary + a.score) ELSE primary
    IN [pain |-> pain,
        reasoning |->
            (IF therapy_primary
             THEN <<Reason(Fmt1(primary), t.reason, "(therapy coding dominates)"),
                    Reason(NaN, "Alternative: E&M undercoding", "")>>
             ELSE <<Reason(Fmt1(primary), u.reason, "")>>
                  \o (IF t.score > 10000
                      THEN <<Reason(NaN, "Secondary: therapy coding", "")>>
                      ELSE <<>>))
            \o (IF a.score > 0 THEN <<Reason(Fmt1(a.score), a.reason, "")>> ELSE <<>>),
        confidence |-> IF pain >= 30000 THEN 50 ELSE 0,
        pain_undercoding |-> u.score, pain_therapy |-> t.score,
        pain_procedure_alignment |-> a.score]

\* the AMBULATORY branch of the pain sub-score
ambulatory_pain(r) ==
    ambulatory_combine(score_undercoding_continuous(undercoding_of(r)),
                       gated_therapy_pain(r),
                       score_procedure_alignment(r))

\* the pain sub-score of a record on its track
pain_of(r, track) ==
    IF track = "BEHAVIORAL" THEN behavioral_pain(r)
    ELSE IF track = "POST_ACUTE" THEN post_acute_pain(r)
    ELSE ambulatory_pain(r)

--------------------------------------------------------------------------
(* Scoring Engine: calculate_row_score, the pain drivers *)

Driver(kind, value) == [kind |-> kind, value |-> value]

\* the therapy driver named for a psych-risk ratio
therapy_driver(psych_risk, audit_kind) ==
    IF psych_risk <= 300 THEN Driver("Therapy Undercoding", Fmt2(psych_risk))
    ELSE IF psych_risk >= 750 THEN Driver(audit_kind, Fmt2(psych_risk))
    ELSE Driver("Therapy Coding Risk", Fmt2(psych_risk))

\* the gate as the driver text re-derives it: the share is computed without
\* the eval_codes_available test
driver_therapy_gate(r) ==
    LET total_ambulatory_driver == total_psych_of(r) + total_eval_of(r)
    IN /\ total_ambulatory_driver > 0
       /\ 5 * total_psych_of(r) > total_ambulatory_driver
       /\ total_psych_of(r) >= 100
       /\ psych_risk_of(r) > 0

\* dominant_signal == "therapy" in the driver text
driver_therapy_dominant(r) ==
    /\ driver_therapy_gate(r)
    /\ score_psych_risk_continuous(psych_risk_of(r)).score
         > score_undercoding_continuous(undercoding_of(r)).score

\* the drivers the pain block appends
pain_drivers(r, track, p) ==
    LET pain == p.pain
        benchmark == <<Driver("Track: Benchmark", NaN)>>
    IN IF track = "BEHAVIORAL"
       THEN IF pain >= 25000
            THEN <<therapy_driver(psych_risk_of(r), "Compliance/Audit Risk")>>
            ELSE benchmark
       ELSE IF track = "POST_ACUTE"
       THEN IF pain >= 25000
            THEN IF notna(r.net_margin)
                 THEN IF r.net_margin < 0
                      THEN <<Driver("Financial Distress", FmtPct1(r.net_margin))>>
                      ELSE <<Driver("Margin Pressure", FmtPct1(r.net_margin))>>
                 ELSE <<Driver("Margin Pressure", NaN)>>
            ELSE benchmark
       ELSE IF pain >= 25000
            THEN (IF /\ p.pain_procedure_alignment >= 3000
                     /\ notna(get_expected_procedure_ratio(r.taxonomy))
                     /\ get_expected_procedure_ratio(r.taxonomy) # 0
                  THEN <<Driver("Procedure Alignment", r.procedure_ratio)>>
                  ELSE <<>>)
                 \o (IF driver_therapy_dominant(r)
                     THEN <<therapy_driver(psych_risk_of(r), "Therapy Audit Risk")>>
                     ELSE IF undercoding_of(r) >= UNDERCODING_NATIONAL_AVG
                     THEN <<Driver("Strong E&M Documentation", Fmt2(undercoding_of(r)))>>
                     ELSE IF pain >= 35000
                     THEN <<Driver("SEVERE Undercoding", Fmt2(undercoding_of(r)))>>
                     ELSE <<Driver("E&M Undercoding", Fmt2(undercoding_of(r)))>>)
            ELSE benchmark

--------------------------------------------------------------------------
(* Scoring Engine: calculate_row_score, the pain label *)

\* the label test C8 excludes: dominance of the psych-risk curve alone,
\* without the share and volume conditions
label_therapy_dominance(r) ==
    /\ psych_risk_of(r) > 0
    /\ score_psych_risk_continuous(psych_risk_of(r)).score
         > score_undercoding_continuous(undercoding_of(r)).score

\* the gate as the label text re-derives it (both tracks compute the share
\* with the eval_codes_available test)
label_therapy_gate(r) ==
    /\ psych_percentage_over_20(r)
    /\ total_psych_of(r) >= 100
    /\ psych_risk_of(r) > 0
    /\ score_psych_risk_continuous(psych_risk_of(r)).score
         > score_undercoding_continuous(undercoding_of(r)).score

\* the pain label of a BEHAVIORAL record
behavioral_label(r) ==
    LET psych_risk == psych_risk_of(r)
        pain_therapy_bh == score_psych_risk_continuous(psych_risk).score
        is_winning_bh == undercoding_of(r) >= UNDERCODING_NATIONAL_AVG /\ pain_therapy_bh = 0
    IN IF is_winning_bh THEN "Low Pain - Strong Documentation"
       ELSE IF label_therapy_gate(r)
       THEN IF psych_risk <= 300 THEN "Therapy Undercoding Pain"
            ELSE IF psych_risk >= 750 THEN "Audit Risk Pain"
            ELSE "Therapy Coding Risk"
       ELSE "Undercoding Pain"

\* the pain label of an AMBULATORY record
ambulatory_label(r, pain_procedure_alignment) ==
    LET psych_risk == psych_risk_of(r)
        pain_therapy_check == score_psych_risk_continuous(psych_risk).score
        pain_undercoding_check == score_undercoding_continuous(undercoding_of(r)).score
        is_winning == /\ undercoding_of(r) >= UNDERCODING_NATIONAL_AVG
                      /\ pain_therapy_check = 0
                      /\ pain_procedure_alignment = 0
    IN IF is_winning THEN "Low Pain - Strong Documentation"
       ELSE IF /\ pain_procedure_alignment >= 3000
               /\ pain_procedure_alignment >= pain_therapy_check
               /\ pain_procedure_alignment >= pain_undercoding_check
       THEN "Procedure Alignment Pain"
       ELSE IF label_therapy_gate(r)
       THEN IF psych_risk <= 300 THEN "Therapy Undercoding Pain"
            ELSE IF psych_risk >= 750 THEN "Therapy Audit Risk"
            ELSE "Therapy Coding Risk"
       ELSE "Undercoding Pain"

\* pain_label
pain_label_of(r, track, p) ==
    IF track = "BEHAVIORAL" THEN behavioral_label(r)
    ELSE IF track = "POST_ACUTE" THEN "Margin Pressure"
    ELSE ambulatory_label(r, p.pain_procedure_alignment)

--------------------------------------------------------------------------
(* Scoring Engine: calculate_row_score *)

--------------------------------------------------------------------------
(* Scoring Engine: fit, strategy, total and tier *)

\* math.log at the arguments the records below lead to, in ten-thousandths
Ln ==
    3 :> 10986 @@ 10 :> 23026 @@ 50 :> 39120 @@ 100 :> 46052 @@
    500 :> 62146 @@ 1000 :> 69078 @@ 5000 :> 85172 @@ 10000 :> 92103 @@
    20000 :> 99035 @@ 50000 :> 108198 @@ 100000 :> 115129 @@ 500000 :> 131224 @@
    1000000 :> 138155 @@ 1500000 :> 142210 @@ 2000000 :> 145087 @@ 3000000 :> 149141 @@
    5000000 :> 154249 @@ 6000000 :> 156073 @@ 9000000 :> 160127 @@ 9999999 :> 161181 @@
    10000000 :> 161181 @@ 15000000 :> 165236

\* str.lower()
Lower(s) ==
    [i \in 1..Len(s) |->
        IF \E c \in LowerCase : UpperOf[c] = s[i]
        THEN CHOOSE c \in LowerCase : UpperOf[c] = s[i]
        ELSE s[i]]

sTrue == <<"t", "r", "u", "e">>

\* str(flag).lower() == 'true'
is_true(flag) == Lower(flag) = sTrue

is_aco(r) == is_true(r.is_aco_participant)
is_risk(r) == is_true(r.risk_compliance_flag) \/ is_true(r.oig_leie_flag)
is_hpsa_or_mua(r) == is_true(r.is_hpsa) \/ is_true(r.is_mua)

\* services_count if known and positive, else final_volume, else 0
vol_metric_of(r) ==
    IF notna(r.services_count) /\ r.services_count > 0 THEN r.services_count
    ELSE IF notna(r.final_volume) THEN r.final_volume
    ELSE 0

is_verified_volume(r) ==
    \/ Contains(Upper(r.volume_source), <<"U", "D", "S">>)
    \/ Contains(Upper(r.volume_source), <<"V", "E", "R", "I", "F", "I", "E", "D">>)
    \/ Contains(Upper(r.volume_source), <<"C", "L", "A", "I", "M", "S">>)
    \/ Contains(Upper(r.volume_source), <<"H", "R", "S", "A">>)

\* score_behavioral_vbc_readiness: the score
score_behavioral_vbc_readiness(r) ==
    Min(15000,
        (IF notna(r.avg_mips_score) /\ r.avg_mips_score > 80 THEN 5000
         ELSE IF notna(r.avg_mips_score) /\ r.avg_mips_score >= 60 THEN 3000
         ELSE 0)
        + (IF is_aco(r) THEN 5000 ELSE 0)
        + (IF is_hpsa_or_mua(r) THEN 5000 ELSE 0))

\* score_provider_count_continuous; a missing count fails both comparisons and
\* math.log and round hand the nan on
score_provider_count_continuous(npi_count) ==
    IF isna(npi_count) THEN NaN
    ELSE IF npi_count <= 1 THEN 0
    ELSE IF npi_count >= 100 THEN 10000
    ELSE Round1(Ln[npi_count] * 10000, Ln[100])

\* the log-linear ramp lo + (log(x) - log(xmin)) / (log(xmax) - log(xmin)) * (hi - lo),
\* cut to [lo, hi] and rounded to one decimal
LogRamp(x, xmin, xmax, lo, hi) ==
    Round1(Min(hi * (Ln[xmax] - Ln[xmin]),
               Max(lo * (Ln[xmax] - Ln[xmin]),
                   lo * (Ln[xmax] - Ln[xmin]) + (Ln[x] - Ln[xmin]) * (hi - lo))),
           Ln[xmax] - Ln[xmin])

\* score_revenue_continuous
score_revenue_continuous(revenue, segment) ==
    IF isna(revenue) \/ revenue <= 0 THEN 2000
    ELSE IF segment = "FQHC"
    THEN IF revenue >= 5000000 THEN 15000
         ELSE IF revenue <= 100000 THEN 2000
         ELSE LogRamp(revenue, 100000, 5000000, 2000, 15000)
    ELSE IF revenue >= 15000000 THEN 15000
         ELSE IF revenue <= 500000 THEN 2000
         ELSE LogRamp(revenue, 500000, 15000000, 2000, 15000)

\* score_volume_continuous
score_volume_continuous(volume, is_verified) ==
    IF isna(volume) \/ volume <= 0 THEN 3000
    ELSE IF volume >= 50000 THEN (IF is_verified THEN 15000 ELSE 10000)
    ELSE IF volume <= 1000 THEN 3000
    ELSE LogRamp(volume, 1000, 50000, 3000, IF is_verified THEN 15000 ELSE 10000)

\* score_behavioral_volume_continuous
score_behavioral_volume_continuous(volume, is_verified) ==
    IF isna(volume) \/ volume <= 0 THEN 3000
    ELSE IF volume >= 20000 THEN (IF is_verified THEN 15000 ELSE 10000)
    ELSE IF volume <= 500 THEN 3000
    ELSE LogRamp(volume, 500, 20000, 3000, IF is_verified THEN 15000 ELSE 10000)

segment_alignment_scores ==
    [s \in {"FQHC", "Urgent Care", "Behavioral Health", "Private Practice", "Hospital",
            "Home Health", "Ambulatory Clinic", "Multi-specialty"} |->
        CASE s \in {"FQHC", "Urgent Care"} -> 15000
          [] s \in {"Behavioral Health", "Private Practice"} -> 10000
          [] s = "Hospital" -> 8000
          [] OTHER -> 5000]

\* segment_alignment_scores.get(segment, 5)
s2_align(segment) ==
    IF segment \in DOMAIN segment_alignment_scores
    THEN segment_alignment_scores[segment] ELSE 5000

s2_mips(r) ==
    IF notna(r.avg_mips_score) /\ (r.avg_mips_score > 80 \/ r.avg_mips_score < 50)
    THEN 5000 ELSE 0

\* the fit sub-score with the provider-count score s2_complex already computed
fit_with(r, track, s2_complex) ==
    IF isna(s2_complex) THEN NaN
    ELSE IF track = "BEHAVIORAL"
    THEN 10000 + score_behavioral_vbc_readiness(r) + Min(s2_complex, 5000)
    ELSE s2_align(corrected_segment(r)) + s2_complex
         + (IF is_aco(r) THEN 3000 ELSE 0) + (IF is_risk(r) THEN 2000 ELSE 0)
         + s2_mips(r) + (IF is_hpsa_or_mua(r) THEN 5000 ELSE 0)

fit_of(r, track) == fit_with(r, track, score_provider_count_continuous(r.npi_count))

\* s2_align, s2_complex, s2_tech_risk, s2_mips, s2_hpsa_mua as the return
\* dictionary reports them: the BEHAVIORAL branch sets the first two only
fit_breakdown(r, track, s2_complex) ==
    IF track = "BEHAVIORAL"
    THEN [align |-> 10000, complex |-> s2_complex, chaos |-> 0, risk |-> 0, mips |-> 0,
          hpsa_mua |-> 0]
    ELSE [align |-> s2_align(corrected_segment(r)), complex |-> s2_complex, chaos |-> 0,
          risk |-> (IF is_aco(r) THEN 3000 ELSE 0) + (IF is_risk(r) THEN 2000 ELSE 0),
          mips |-> s2_mips(r),
          hpsa_mua |-> IF is_hpsa_or_mua(r) THEN 5000 ELSE 0]

\* the reasons score_behavioral_vbc_readiness returns: texts without a '+N pts'
vbc_reasons(r) ==
    (IF notna(r.avg_mips_score) /\ r.avg_mips_score > 80
     THEN <<Reason(NaN, "VBC-ready tech infrastructure", "")>>
     ELSE IF notna(r.avg_mips_score) /\ r.avg_mips_score >= 60
     THEN <<Reason(NaN, "moderate tech readiness", "")>>
     ELSE <<>>)
    \o (IF is_aco(r) THEN <<Reason(NaN, "ACO participant = VBC experience", "")>> ELSE <<>>)
    \o (IF is_hpsa_or_mua(r)
        THEN <<Reason(NaN, "complex population, BHI opportunity", "")>> ELSE <<>>)

\* the '+N pts: providers' entry, written when s2_complex > 0 (false for nan)
provider_reason(s2_complex, text) ==
    IF notna(s2_complex) /\ s2_complex > 0
    THEN <<Reason(Fmt1(s2_complex), text, "")>> ELSE <<>>

\* fit_reasoning with the provider-count score s2_complex already computed
fit_reasoning_with(r, track, s2_complex) ==
    IF track = "BEHAVIORAL"
    THEN <<Reason(100, "Behavioral Health - Core ICP segment", "")>>
         \o vbc_reasons(r)
         \o provider_reason(s2_complex, "providers (operational capacity)")
    ELSE <<Reason(Fmt1(s2_align(corrected_segment(r))), "alignment", "")>>
         \o provider_reason(s2_complex, "providers")
         \o (IF is_aco(r) THEN <<Reason(30, "ACO participant", "")>> ELSE <<>>)
         \o (IF is_risk(r) THEN <<Reason(20, "Compliance flag", "")>> ELSE <<>>)
         \o (IF s2_mips(r) > 0
             THEN <<Reason(50, IF r.avg_mips_score > 80 THEN "High MIPS quality"
                               ELSE "Distressed MIPS performer", "")>>
             ELSE <<>>)
         \o (IF is_hpsa_or_mua(r) THEN <<Reason(50, "designated area", "")>> ELSE <<>>)

fit_reasoning(r, track) ==
    fit_reasoning_with(r, track, score_provider_count_continuous(r.npi_count))

\* s3_revenue on the BEHAVIORAL track
behavioral_revenue(est_rev) ==
    IF est_rev <= 0 THEN 2000
    ELSE IF est_rev >= 15000000 THEN 15000
    ELSE IF est_rev <= 1000000 THEN 2000
    ELSE LogRamp(est_rev, 1000000, 15000000, 2000, 15000)

\* est_rev: the record's revenue, else the volume times a price per visit
est_rev_of(r, price) ==
    IF notna(real_revenue_of(r)) THEN real_revenue_of(r) ELSE vol_metric_of(r) * price

\* the dollars per visit C23 states: by segment alone
price_per_visit_by_segment(r, track) ==
    IF corrected_segment(r) = "FQHC" THEN 300 ELSE 100
\* the dollars per visit the revenue estimate uses: 150 on the BEHAVIORAL
\* track, else 300 for the FQHC segment and 100 for the others
price_per_visit(r, track) ==
    IF track = "BEHAVIORAL" THEN 150
    ELSE IF corrected_segment(r) = "FQHC" THEN 300 ELSE 100

\* the strategy sub-score
strat_of(r, track) ==
    IF track = "BEHAVIORAL"
    THEN behavioral_revenue(est_rev_of(r, 150))
         + score_behavioral_volume_continuous(vol_metric_of(r), is_verified_volume(r))
    ELSE score_revenue_continuous(
             est_rev_of(r, IF corrected_segment(r) = "FQHC" THEN 300 ELSE 100),
             corrected_segment(r))
         + score_volume_continuous(vol_metric_of(r), is_verified_volume(r))

\* strategy_reasoning: the revenue entry and the volume entry
strategy_reasoning(r, track) ==
    IF track = "BEHAVIORAL"
    THEN <<Reason(Fmt1(behavioral_revenue(est_rev_of(r, 150))),
                  "revenue (equalized thresholds)", ""),
           Reason(Fmt1(score_behavioral_volume_continuous(vol_metric_of(r),
                                                          is_verified_volume(r))),
                  IF vol_metric_of(r) > 0 THEN "volume (behavioral thresholds)"
                  ELSE "No volume data", "")>>
    ELSE <<Reason(Fmt1(score_revenue_continuous(
                           est_rev_of(r, IF corrected_segment(r) = "FQHC" THEN 300 ELSE 100),
                           corrected_segment(r))),
                  "revenue", ""),
           Reason(Fmt1(score_volume_continuous(vol_metric_of(r), is_verified_volume(r))),
                  IF vol_metric_of(r) > 0 THEN "volume" ELSE "No volume data", "")>>

\* total = round(pain + fit + strat, 1)
total_of(pain, fit, strat) ==
    IF isna(fit) THEN NaN ELSE Round1(pain + fit + strat, 1)

\* the tier: every comparison with a nan total is false
tier_of(total) ==
    IF isna(total) THEN "Tier 4"
    ELSE IF total >= 70000 THEN "Tier 1"
    ELSE IF total >= 50000 THEN "Tier 2"
    ELSE IF total >= 30000 THEN "Tier 3"
    ELSE "Tier 4"

\* min(100, total): 100 unless total < 100, so 100 for a nan total
capped_total(total) ==
    IF notna(total) /\ total < 100000 THEN total ELSE 100000

\* the returned dictionary, with the pain block's local values, for a record
\* on its track with pain block p, fit and strategy sub-scores and total
ScoreResult(r, track, p, fit, strat, total) ==
       [icp_score |-> capped_total(total),
        icp_tier |-> tier_of(total),
        segment_label |-> corrected_segment(r),
        scoring_track |-> track,
        pain_label |-> pain_label_of(r, track, p),
        pain_confidence |-> p.confidence,
        pain_drivers |-> pain_drivers(r, track, p),
        score_pain_total |-> Round1(p.pain, 1),
        score_fit_total |-> fit,
        score_fit_breakdown |->
            fit_breakdown(r, track, score_provider_count_continuous(r.npi_count)),
        score_strat_total |-> strat,
        metric_est_revenue |-> est_rev_of(r, price_per_visit(r, track)),
        metric_used_volume |-> vol_metric_of(r),
        score_reasoning_pain |-> p.reasoning,
        score_reasoning_fit |-> fit_reasoning(r, track),
        score_reasoning_strategy |-> strategy_reasoning(r, track),
        pain_undercoding |-> p.pain_undercoding,
        pain_therapy |-> p.pain_therapy,
        pain_procedure_alignment |-> p.pain_procedure_alignment]

\* the record scored from its pain block and its fit and strategy sub-scores
score_with(r, track, p, fit, strat) ==
    ScoreResult(r, track, p, fit, strat, total_of(p.pain, fit, strat))

\* the record scored on a known track
score_on_track(r, track) ==
    score_with(r, track, pain_of(r, track), fit_of(r, track), strat_of(r, track))

\* calculate_row_score
calculate_row_score(r) == score_on_track(r, detect_track(r))

--------------------------------------------------------------------------
(* Scoring Engine: inputs *)

nTestClinic == <<"T", "e", "s", "t", " ", "C", "l", "i", "n", "i", "c">>
nCounseling == <<"M", "i", "n", "d", "f", "u", "l", " ", "C", "o", "u", "n", "s", "e", "l", "i", "n", "g">>
nPsychLower == <<"p", "s", "y", "c", "h", " ", "c", "a", "r", "e">>
nMentalHlth == <<"M", "e", "n", "t", "a", "l", " ", "H", "l", "t", "h">>

tPodiatry == <<"2", "1", "3", "E", "0", "0", "0", "0", "0", "X">>
tFamilyThenPain == <<"2", "0", "7", "Q", "0", "0", "0", "0", "0", "X", ";", " ",
                     "2", "0", "7", "T", "0", "0", "0", "0", "0", "X">>

vClaims == <<"C", "L", "A", "I", "M", "S">>
vEstimated == <<"e", "s", "t", "i", "m", "a", "t", "e", "d">>
sFalse == <<"f", "a", "l", "s", "e">>
\* str(True)
sTrueCap == <<"T", "r", "u", "e">>

\* the record of the unit tests' base fixture, every column it leaves out missing
BaseRow ==
    [segment_label |-> "Private Practice", org_name |-> nTestClinic,
     undercoding_ratio |-> 600, psych_risk_ratio |-> 200,
     total_psych_codes |-> 0, total_eval_codes |-> NaN,
     taxonomy |-> NaNStr, procedure_ratio |-> NaN, total_procedure_codes |-> NaN,
     net_margin |-> NaN,
     total_revenue |-> 5000000, hospital_total_revenue |-> NaN, fqhc_revenue |-> NaN,
     hha_revenue |-> NaN, real_medicare_revenue |-> NaN,
     services_count |-> 10000, final_volume |-> 10000, volume_source |-> vClaims,
     is_aco_participant |-> sFalse, risk_compliance_flag |-> sFalse,
     oig_leie_flag |-> sFalse, npi_count |-> 10, avg_mips_score |-> 75,
     is_hpsa |-> sFalse, is_mua |-> sFalse]

SegmentLabels == {"Behavioral Health", "Hospital", "Home Health", "Private Practice",
                  "FQHC", "Multi-specialty"}
OrgNames == {nTestClinic, nCounseling, nPsychLower, nMentalHlth}

\* records that vary what track selection reads, and the margin and revenue
TrackRows ==
    { [BaseRow EXCEPT !.segment_label = x[1], !.org_name = x[2], !.net_margin = x[3],
                      !.total_revenue = x[4]] :
        x \in SegmentLabels \X OrgNames \X {NaN, -200, 200, 800} \X {NaN, 5000000, 25000000} }

\* the margins at which 25 + (0.05 - m)/0.05*15 falls exactly between two
\* tenths: there the float result, not exact arithmetic, decides round(pain, 1)
MarginTies == { m \in 0..499 : m % 10 = 5 }

\* net margins from -2% to 8%: around 0 and 0.05 every ten-thousandth, between
\* them every fourth, except the ties
Margins ==
    ({-200, -1, 800} \cup 0..12 \cup { m \in 13..479 : m % 4 = 0 } \cup 480..503)
        \ MarginTies

\* records that vary the margin the POST_ACUTE pain reads
MarginRows ==
    { [BaseRow EXCEPT !.segment_label = x[1], !.net_margin = x[2]] :
        x \in {"Hospital", "Home Health"} \X ({NaN} \cup Margins) }

UndercodingRatios == {NaN, 200, 400, 600}
PsychRiskRatios == {NaN, 200, 350, 500, 800}
PsychVolumes == {NaN, 10, 100, 300, 501, 600}
EvalVolumes == {NaN, 0, 90, 400, 2000}
\* (taxonomy, procedure_ratio, total_procedure_codes)
ProcedureData ==
    { <<NaNStr, NaN, NaN>>, <<tPodiatry, NaN, 100>>, <<tPodiatry, 100, 10>>,
      <<tPodiatry, 300, 100>>, <<tPodiatry, 500, 100>>, <<tFamilyThenPain, 100, 100>> }

\* records that vary what the pain sub-score reads, on each track
PainRows ==
    { [BaseRow EXCEPT !.segment_label = x[1], !.undercoding_ratio = x[2],
                      !.psych_risk_ratio = x[3], !.total_psych_codes = x[4],
                      !.total_eval_codes = x[5], !.taxonomy = x[6][1],
                      !.procedure_ratio = x[6][2], !.total_procedure_codes = x[6][3]] :
        x \in {"Private Practice", "Behavioral Health", "Multi-specialty"}
              \X UndercodingRatios \X PsychRiskRatios \X PsychVolumes \X EvalVolumes
              \X ProcedureData }

\* the labels the enrichment step assigns
EnrichedLabels == SegmentLabels \cup {"Urgent Care", "Ambulatory Clinic", "Specialty Group"}

\* records that vary the segment and the revenue columns of the fallback chain
RevenueRows ==
    { [BaseRow EXCEPT !.segment_label = x[1], !.total_revenue = x[2],
                      !.hospital_total_revenue = x[3], !.real_medicare_revenue = x[4]] :
        x \in EnrichedLabels \X {NaN, 5000000, 9999999, 10000000, 25000000}
              \X {NaN, 5000000, 25000000} \X {NaN, 9999999} }

\* (is_aco_participant, risk_compliance_flag, oig_leie_flag, is_hpsa, is_mua)
FlagData ==
    { <<sFalse, sFalse, sFalse, sFalse, sFalse>>,
      <<sTrue, sFalse, sTrueCap, sFalse, sFalse>>,
      <<sFalse, sFalse, sFalse, sTrueCap, sFalse>>,
      <<sTrue, sTrue, NaNStr, sFalse, sTrue>> }

\* (final_volume, volume_source)
VolumeData == { <<NaN, vClaims>>, <<5000, vEstimated>> }

\* records that vary what the fit and strategy sub-scores read
FitRows ==
    { [BaseRow EXCEPT !.segment_label = x[1], !.undercoding_ratio = x[2],
                      !.npi_count = x[3],
                      !.is_aco_participant = x[4][1], !.risk_compliance_flag = x[4][2],
                      !.oig_leie_flag = x[4][3], !.is_hpsa = x[4][4], !.is_mua = x[4][5],
                      !.avg_mips_score = x[5], !.services_count = x[6],
                      !.final_volume = x[7][1], !.volume_source = x[7][2],
                      !.total_revenue = x[8]] :
        x \in {"FQHC", "Private Practice", "Behavioral Health", "Hospital"}
              \X {100, 600} \X {NaN, 1, 10, 150} \X FlagData \X {NaN, 40, 75, 90}
              \X {NaN, 10000, 60000} \X VolumeData \X {NaN, 2000000, 20000000} }

tPainMedicine == <<"2", "0", "7", "T", "0", "0", "0", "0", "0", "X">>
tFamilyMedicine == <<"2", "0", "7", "Q", "0", "0", "0", "0", "0", "X">>

\* records that vary what score_procedure_alignment reads, with procedure ratios
\* at and next to the ones a deficit of 0.20 and 0.40 corresponds to
AlignmentRows ==
    { [BaseRow EXCEPT !.segment_label = x[1], !.taxonomy = x[2], !.procedure_ratio = x[3],
                      !.total_procedure_codes = x[4], !.total_eval_codes = x[5]] :
        x \in {"Private Practice", "Specialty Group", "Multi-specialty"}
              \X {tPodiatry, tPainMedicine, tFamilyMedicine, NaNStr}
              \X {NaN, 0, 49, 50, 51, 100, 199, 200, 201, 249, 250, 251, 300, 399, 400, 401, 580}
              \X {NaN, 10, 100} \X {NaN, 30, 900} }

NoScore == <<>>

\* records for whole-table runs: no procedure-heavy taxonomy; podiatry with
\* data; podiatry without a procedure ratio; pain medicine without a ratio and
\* under 50 claims; a Behavioral Health record with a podiatry taxonomy; pain
\* medicine with data
BatchRows ==
    { BaseRow,
      [BaseRow EXCEPT !.taxonomy = tPodiatry, !.procedure_ratio = 100,
                      !.total_procedure_codes = 100, !.total_eval_codes = 900],
      [BaseRow EXCEPT !.taxonomy = tPodiatry, !.total_procedure_codes = 100,
                      !.total_eval_codes = 900],
      [BaseRow EXCEPT !.taxonomy = tPainMedicine, !.total_procedure_codes = 10,
                      !.total_eval_codes = 30],
      [BaseRow EXCEPT !.segment_label = "Behavioral Health", !.taxonomy = tPodiatry,
                      !.procedure_ratio = 100, !.total_procedure_codes = 100,
                      !.total_eval_codes = 900],
      [BaseRow EXCEPT !.segment_label = "Specialty Group", !.taxonomy = tPainMedicine,
                      !.procedure_ratio = 250, !.total_procedure_codes = 100,
                      !.total_eval_codes = 300] }

\* the scorer's main() not running
BatchIdle ==
    /\ input_exists = FALSE
    /\ batch = <<>>
    /\ results = <<>>
    /\ output = NoFile
    /\ batch_pc = "idle"

--------------------------------------------------------------------------
(* Code Aggregator: the process *)

InitAgg ==
    /\ pecos_files_exist \in BOOLEAN
    /\ enrl = IF pecos_files_exist THEN EnrollmentTable ELSE NoTable
    /\ reas \in IF pecos_files_exist THEN ReassignmentTables ELSE {NoTable}
    /\ bridge = NoBridge
    /\ consumed = <<>>
    /\ org_chunks = <<>>
    /\ procedure_chunks = <<>>
    /\ total_rows = 0
    /\ matched_rows = 0
    /\ result = NoneResult
    /\ agg_pc = "load"
    /\ util_file_exists \in BOOLEAN
    /\ agg_output = NoFile
    /\ row = <<>>
    /\ score = <<>>
    /\ stats = ZeroStats
    /\ score_pc = "idle"
    /\ curve_ratio = NaN
    /\ curve = NoScore
    /\ BatchIdle

\* main(): bridge = load_pecos_bridge()
LoadBridge ==
    /\ agg_pc = "load"
    /\ bridge' = load_pecos_bridge(pecos_files_exist, reas, enrl)
    /\ agg_pc' = "chunks"
    /\ UNCHANGED <<pecos_files_exist, enrl, reas, consumed, org_chunks,
                   procedure_chunks, total_rows, matched_rows, result,
                   util_file_exists, agg_output>>
    /\ UNCHANGED <<scoreVars, curveVars, batchVars>>

\* one iteration of the chunk loop, on a chunk of any length >= 1
ReadChunk ==
    /\ agg_pc = "chunks"
    /\ util_file_exists
    /\ \E n \in 1..(MaxRows - Len(consumed)) :
         \E chunk \in [1..n -> ServiceRows] :
            /\ consumed' = consumed \o chunk
            /\ org_chunks' = IF Filtered(chunk) # <<>>
                             THEN Append(org_chunks, ChunkEvalAgg(chunk, bridge))
                             ELSE org_chunks
            /\ procedure_chunks' = IF ProcedureFiltered(chunk) # <<>>
                                   THEN Append(procedure_chunks, ChunkProcAgg(chunk, bridge))
                                   ELSE procedure_chunks
            /\ matched_rows' = matched_rows + ChunkMatched(chunk, bridge)
            /\ total_rows' = total_rows + Len(chunk)
    /\ UNCHANGED <<pecos_files_exist, enrl, reas, bridge, result, agg_pc,
                   util_file_exists, agg_output>>
    /\ UNCHANGED <<scoreVars, curveVars, batchVars>>

\* pd.read_csv(UTIL_FILE, ...) on a file that is not there raises
\* FileNotFoundError, which nothing catches: the run ends in the traceback
ReadFails ==
    /\ agg_pc = "chunks"
    /\ ~util_file_exists
    /\ agg_pc' = "failed"
    /\ UNCHANGED <<pecos_files_exist, enrl, reas, bridge, consumed, org_chunks,
                   procedure_chunks, total_rows, matched_rows, result,
                   util_file_exists, agg_output>>
    /\ UNCHANGED <<scoreVars, curveVars, batchVars>>

\* end of file: aggregate, pivot, floor, ratios; then main() saves the
\* table, if there is one
Finish ==
    /\ agg_pc = "chunks"
    /\ util_file_exists
    /\ result' = Finalize(org_chunks, procedure_chunks)
    /\ agg_output' = save_metrics(Finalize(org_chunks, procedure_chunks), agg_output)
    /\ agg_pc' = "done"
    /\ UNCHANGED <<pecos_files_exist, enrl, reas, bridge, consumed, org_chunks,
                   procedure_chunks, total_rows, matched_rows, util_file_exists>>
    /\ UNCHANGED <<scoreVars, curveVars, batchVars>>

NextAgg == LoadBridge \/ ReadChunk \/ ReadFails \/ Finish

SpecAgg == InitAgg /\ [][NextAgg]_vars

--------------------------------------------------------------------------
(* Code Aggregator: properties *)

\* the ids an output row could carry
AllIds == Providers \cup { e.NPI : e \in EnrollmentTable }

\* provider p bills for organization o under the bridge in use
BillsFor(p, o) ==
    IF bridge.present
    THEN [indiv_npi |-> p, org_npi |-> o] \in bridge.links
    ELSE p = o

RECURSIVE InputVolume(_, _, _)
\* the service counts of the rows of stream with a code of codes billed for o
InputVolume(stream, o, codes) ==
    IF stream = <<>> THEN 0
    ELSE (IF Head(stream).HCPCS_Cd \in codes /\ BillsFor(Head(stream).Rndrng_NPI, o)
          THEN Head(stream).Tot_Srvcs ELSE 0)
         + InputVolume(Tail(stream), o, codes)

RECURSIVE TargetVolume(_)
\* the service counts of all evaluation target rows of stream
TargetVolume(stream) ==
    IF stream = <<>> THEN 0
    ELSE (IF Head(stream).HCPCS_Cd \in ALL_TARGET_CODES
          THEN Head(stream).Tot_Srvcs ELSE 0)
         + TargetVolume(Tail(stream))

ProcedureCodes == { c \in Codes : is_procedure_code(c) }

\* the whole input processed as one chunk
SingleChunkResult(stream, br) ==
    Finalize(IF Filtered(stream) # <<>> THEN <<ChunkEvalAgg(stream, br)>> ELSE <<>>,
             IF ProcedureFiltered(stream) # <<>> THEN <<ChunkProcAgg(stream, br)>> ELSE <<>>)

OutputRows == { result.rows[i] : i \in 1..Len(result.rows) }

\* C1: chunk-size invariance. However the input was split into chunks, the
\* aggregator's result is the result of processing the whole input as one
\* chunk; the volume floor is applied to the sum over all chunks.
C1_ChunkInvariance ==
    agg_pc = "done" => result = SingleChunkResult(consumed, bridge)

\* C1 witness: an organization is emitted although every per-chunk partial
\* sum is below the floor, and the input was read in more than one chunk
C1_Witness ==
    /\ agg_pc = "done"
    /\ Len(org_chunks) >= 2
    /\ Len(result.rows) >= 1
    /\ \A j \in 1..Len(org_chunks) : \A k \in DOMAIN org_chunks[j] : org_chunks[j][k] < 10

\* C2: every emitted row has count_level_3 + count_level_4_5 = total_eval_codes,
\* undercoding_ratio = count_level_4_5 / total_eval_codes in [0,1],
\* procedure_ratio = total_procedure_codes / (total_procedure_codes +
\* total_eval_codes) in [0,1], and total_procedure_codes = 0 = procedure_ratio
\* for an organization with no procedure rows.
C2_RowInvariant ==
    agg_pc = "done" =>
      \A r \in OutputRows :
        /\ r.count_level_3 >= 0 /\ r.count_level_4_5 >= 0
        /\ r.count_level_3 + r.count_level_4_5 = r.total_eval_codes
        /\ r.undercoding_ratio.den > 0
        /\ r.undercoding_ratio.num * r.total_eval_codes
             = r.count_level_4_5 * r.undercoding_ratio.den
        /\ 0 <= r.undercoding_ratio.num
        /\ r.undercoding_ratio.num <= r.undercoding_ratio.den
        /\ r.total_procedure_codes >= 0
        /\ r.procedure_ratio.den > 0
        /\ r.procedure_ratio.num * (r.total_procedure_codes + r.total_eval_codes)
             = r.total_procedure_codes * r.procedure_ratio.den
        /\ 0 <= r.procedure_ratio.num
        /\ r.procedure_ratio.num <= r.procedure_ratio.den
        /\ (InputVolume(consumed, r.npi, ProcedureCodes) = 0 =>
              r.total_procedure_codes = 0 /\ r.procedure_ratio.num = 0)

\* C2 witness: an emitted row with both evaluation levels and procedures
C2_Witness ==
    /\ agg_pc = "done"
    /\ \E r \in OutputRows :
         r.count_level_3 > 0 /\ r.count_level_4_5 > 0 /\ r.total_procedure_codes > 0

\* C3: the output holds one row per organization id, and an organization is in
\* the output iff its evaluation volume over the whole input is at least 10.
C3_FloorIff ==
    agg_pc = "done" =>
      /\ \A i, j \in 1..Len(result.rows) :
           result.rows[i].npi = result.rows[j].npi => i = j
      /\ \A o \in AllIds :
           (\E r \in OutputRows : r.npi = o)
             <=> InputVolume(consumed, o, ALL_TARGET_CODES) >= 10

\* C3 witness: one organization at the floor is emitted, one with a smaller
\* positive evaluation volume is not
C3_Witness ==
    /\ agg_pc = "done"
    /\ \E o \in AllIds : InputVolume(consumed, o, ALL_TARGET_CODES) = 10
                          /\ \E r \in OutputRows : r.npi = o
    /\ \E o \in AllIds : /\ InputVolume(consumed, o, ALL_TARGET_CODES) \in 1..9
                          /\ \A r \in OutputRows : r.npi # o

\* C4: the bridge maps every individual to at most one organization, so the
\* evaluation volume credited to organizations (before the floor) never exceeds
\* the evaluation volume of the input.
C4_ManyToOne ==
    agg_pc # "load" /\ bridge.present =>
      /\ \A l1, l2 \in bridge.links :
           l1.indiv_npi = l2.indiv_npi => l1.org_npi = l2.org_npi
      /\ (agg_pc = "done" =>
            SumFn(FinalAgg(org_chunks), DOMAIN FinalAgg(org_chunks))
              <= TargetVolume(consumed))

\* C5: with a bridge every output id is an organization id of the bridge and
\* each output row sums only rows whose provider has a bridge entry for it;
\* without a bridge every output id is the provider id of an input row and the
\* row sums that provider's rows.
C5_BridgeRewrite ==
    agg_pc = "done" =>
      \A r \in OutputRows :
        /\ bridge.present => r.npi \in { l.org_npi : l \in bridge.links }
        /\ ~bridge.present =>
             \E i \in 1..Len(consumed) : consumed[i].Rndrng_NPI = r.npi
        /\ r.count_level_3 = InputVolume(consumed, r.npi, LEVEL_3_CODES)
        /\ r.count_level_4_5 = InputVolume(consumed, r.npi, LEVEL_4_5_CODES)
        /\ r.total_procedure_codes = InputVolume(consumed, r.npi, ProcedureCodes)

\* C5 witness: a bridge is in use, the input holds evaluation and procedure rows
\* of a provider without a bridge entry, and an organization is emitted
C5_Witness ==
    /\ agg_pc = "done"
    /\ bridge.present
    /\ Len(result.rows) >= 1
    /\ \E i \in 1..Len(consumed) :
         /\ consumed[i].HCPCS_Cd \in ALL_TARGET_CODES
         /\ \A l \in bridge.links : l.indiv_npi # consumed[i].Rndrng_NPI

\* the utilization files of at most MaxRows rows
UtilizationFiles == UNION { [1..n -> ServiceRows] : n \in 1..MaxRows }

\* every OUTPUT_FILE a run with a bridge writes
BridgedOutputs ==
    { save_metrics(SingleChunkResult(rows, load_pecos_bridge(TRUE, t, EnrollmentTable)),
                   NoFile) :
        <<rows, t>> \in { x \in UtilizationFiles \X ReassignmentTables :
                            ~SingleChunkResult(x[1], load_pecos_bridge(TRUE, x[2],
                                                                       EnrollmentTable)).is_none } }

\* C25: a table written by the per-individual fallback is told apart, by
\* what the output holds, from every table a run with a bridge writes
C25_FallbackExplicit ==
    (agg_pc = "done" /\ ~bridge.present /\ agg_output.written)
        => agg_output \notin BridgedOutputs

--------------------------------------------------------------------------
(* Scoring Engine: the process *)

InitScore ==
    /\ (row \in TrackRows \/ row \in PainRows \/ row \in RevenueRows \/ row \in FitRows
        \/ row \in AlignmentRows \/ row \in MarginRows)
    /\ score = NoScore
    /\ stats = ZeroStats
    /\ score_pc = "ready"
    /\ pecos_files_exist = FALSE
    /\ enrl = NoTable
    /\ reas = NoTable
    /\ bridge = NoBridge
    /\ consumed = <<>>
    /\ org_chunks = <<>>
    /\ procedure_chunks = <<>>
    /\ total_rows = 0
    /\ matched_rows = 0
    /\ result = NoneResult
    /\ agg_pc = "idle"
    /\ util_file_exists = FALSE
    /\ agg_output = NoFile
    /\ BatchIdle
    /\ curve_ratio = NaN
    /\ curve = NoScore

\* df.apply(calculate_row_score) on one record: the ScoreResult, and the
\* data-quality counters score_procedure_alignment updates on the way
ScoreRow ==
    /\ score_pc = "ready"
    /\ score' = calculate_row_score(row)
    /\ stats' = IF detect_track(row) = "AMBULATORY" THEN StatsAfter(stats, row) ELSE stats
    /\ score_pc' = "scored"
    /\ UNCHANGED row
    /\ UNCHANGED <<aggVars, curveVars, batchVars>>

NextScore == ScoreRow

SpecScore == InitScore /\ [][NextScore]_vars

--------------------------------------------------------------------------
(* Scoring Engine: main() over a whole input table *)

\* one call of calculate_row_score with the global counters as they stand:
\* the ScoreResult it returns and the counters it leaves behind
row_score_call_counting(st, r) ==
    [result |-> IF st.procedure_heavy_specialties > 0
                THEN [calculate_row_score(r) EXCEPT !.pain_procedure_alignment = 0]
                ELSE calculate_row_score(r),
     stats |-> IF detect_track(r) = "AMBULATORY" THEN StatsAfter(st, r) ELSE st]
row_score_call(st, r) ==
    [result |-> calculate_row_score(r),
     stats |-> IF detect_track(r) = "AMBULATORY" THEN StatsAfter(st, r) ELSE st]

\* final_df.sort_values('icp_score', ascending=False): a descending order of
\* the rows; sort_values' default quicksort leaves the order of equal scores open
SortedByScore(table, perm) ==
    \A i \in 1..(Len(table) - 1) :
        table[perm[i]].icp_score >= table[perm[i + 1]].icp_score

InitBatch ==
    /\ input_exists \in BOOLEAN
    /\ \E n \in 1..MaxBatch : batch \in [1..n -> BatchRows]
    /\ results = <<>>
    /\ output = NoFile
    /\ batch_pc = "start"
    /\ row = <<>>
    /\ score = NoScore
    /\ stats = ZeroStats
    /\ score_pc = "idle"
    /\ pecos_files_exist = FALSE
    /\ enrl = NoTable
    /\ reas = NoTable
    /\ bridge = NoBridge
    /\ consumed = <<>>
    /\ org_chunks = <<>>
    /\ procedure_chunks = <<>>
    /\ total_rows = 0
    /\ matched_rows = 0
    /\ result = NoneResult
    /\ agg_pc = "idle"
    /\ util_file_exists = FALSE
    /\ agg_output = NoFile
    /\ curve_ratio = NaN
    /\ curve = NoScore

\* main(): if not os.path.exists(INPUT_FILE): return
InputMissing ==
    /\ batch_pc = "start"
    /\ ~input_exists
    /\ batch_pc' = "aborted"
    /\ UNCHANGED <<input_exists, batch, results, output>>
    /\ UNCHANGED <<aggVars, scoreVars, curveVars>>

\* main(): df = pd.read_csv(INPUT_FILE), the merges and to_numeric
ReadInput ==
    /\ batch_pc = "start"
    /\ input_exists
    /\ batch_pc' = "scoring"
    /\ UNCHANGED <<input_exists, batch, results, output>>
    /\ UNCHANGED <<aggVars, scoreVars, curveVars>>

\* df.apply(calculate_row_score, axis=1): the call on the next row
ApplyRow ==
    /\ batch_pc = "scoring"
    /\ Len(results) < Len(batch)
    /\ results' = Append(results, row_score_call(stats, batch[Len(results) + 1]).result)
    /\ stats' = row_score_call(stats, batch[Len(results) + 1]).stats
    /\ UNCHANGED <<input_exists, batch, output, batch_pc>>
    /\ UNCHANGED <<row, score, score_pc>>
    /\ UNCHANGED <<aggVars, curveVars>>

\* after the last row: concat, sort by icp_score, to_csv(OUTPUT_FILE)
SaveOutput ==
    /\ batch_pc = "scoring"
    /\ Len(results) = Len(batch)
    /\ \E perm \in Permutations(1..Len(results)) :
          /\ SortedByScore(results, perm)
          /\ output' = [written |-> TRUE,
                        table |-> [i \in 1..Len(results) |-> results[perm[i]]]]
    /\ batch_pc' = "saved"
    /\ UNCHANGED <<input_exists, batch, results>>
    /\ UNCHANGED <<aggVars, scoreVars, curveVars>>

NextBatch == InputMissing \/ ReadInput \/ ApplyRow \/ SaveOutput

SpecBatch == InitBatch /\ [][NextBatch]_vars

--------------------------------------------------------------------------
(* Scoring Engine: the two curves called on their own *)

\* the ratios at which 40 - (r - 0.15)/0.30*25 falls exactly between two
\* tenths: there the float result, not exact arithmetic, decides round(score, 1)
UndercodingTies == { r \in 151..449 : (r - 150) % 6 = 3 }

\* the ratios handed to the curves: missing, and every thousandth from -0.02
\* to 1.02 except the ties
CurveRatios == {NaN} \cup ((-20..1020) \ UndercodingTies)

InitCurve ==
    /\ curve_ratio \in CurveRatios
    /\ curve = NoScore
    /\ row = <<>>
    /\ score = NoScore
    /\ stats = ZeroStats
    /\ score_pc = "idle"
    /\ pecos_files_exist = FALSE
    /\ enrl = NoTable
    /\ reas = NoTable
    /\ bridge = NoBridge
    /\ consumed = <<>>
    /\ org_chunks = <<>>
    /\ procedure_chunks = <<>>
    /\ total_rows = 0
    /\ matched_rows = 0
    /\ result = NoneResult
    /\ agg_pc = "idle"
    /\ util_file_exists = FALSE
    /\ agg_output = NoFile
    /\ BatchIdle

\* both curves applied to the ratio
ApplyCurves ==
    /\ curve = NoScore
    /\ curve' = [undercoding |-> score_undercoding_continuous(curve_ratio),
                 psych_risk |-> score_psych_risk_continuous(curve_ratio)]
    /\ UNCHANGED curve_ratio
    /\ UNCHANGED <<aggVars, scoreVars, batchVars>>

NextCurve == ApplyCurves

SpecCurve == InitCurve /\ [][NextCurve]_vars

--------------------------------------------------------------------------
(* Scoring Engine: properties *)

Scored == score_pc = "scored"

\* the names of OrgNames that hold one of the five keywords in some casing
KeywordNames == {nCounseling, nPsychLower}

\* the pain labels that contain 'Therapy'
TherapyLabels == {"Therapy Undercoding Pain", "Therapy Audit Risk", "Therapy Coding Risk"}

\* the driver texts that name a therapy driver
TherapyDrivers == {"Therapy Undercoding", "Therapy Audit Risk", "Therapy Coding Risk"}

\* a column read with a missing value as 0
Read0(x) == IF x = NaN THEN 0 ELSE x

\* the relevance gate as a function of the record: the share of psych codes
\* in psych + evaluation volume is above 20% (and is 0 when the evaluation
\* volume is missing or not positive), and there are at least 100 psych codes
RelevanceGate(r) ==
    /\ r.total_eval_codes # NaN
    /\ r.total_eval_codes > 0
    /\ 5 * Read0(r.total_psych_codes) > Read0(r.total_psych_codes) + r.total_eval_codes
    /\ Read0(r.total_psych_codes) >= 100

HasTherapyDriver(drivers) ==
    \E i \in 1..Len(drivers) : drivers[i].kind \in TherapyDrivers

\* C6: every scored record has the track given by the precedence
\* Behavioral Health segment or keyword in the name -> BEHAVIORAL, else
\* Home Health or Hospital segment -> POST_ACUTE, else AMBULATORY
C6_TrackPrecedence ==
    Scored =>
        score.scoring_track =
            IF row.segment_label = "Behavioral Health" \/ row.org_name \in KeywordNames
            THEN "BEHAVIORAL"
            ELSE IF row.segment_label \in {"Home Health", "Hospital"} THEN "POST_ACUTE"
            ELSE "AMBULATORY"

\* a Hospital whose mixed-case name holds a keyword has been put on BEHAVIORAL
C6_Witness ==
    /\ Scored
    /\ row.segment_label = "Hospital"
    /\ row.org_name = nCounseling
    /\ score.scoring_track = "BEHAVIORAL"

C8_TherapyLabelGated ==
    (Scored /\ score.pain_label \in TherapyLabels) =>
        /\ 5 * Read0(row.total_psych_codes)
             > Read0(row.total_psych_codes) + Read0(row.total_eval_codes)
        /\ Read0(row.total_psych_codes) >= 100

\* an AMBULATORY record has been given a therapy label
C8_Witness ==
    /\ Scored
    /\ score.scoring_track = "AMBULATORY"
    /\ score.pain_label \in TherapyLabels

\* C9: for an AMBULATORY record with pain >= 25 the driver list names a
\* therapy driver exactly when the pain computation took the gated therapy
\* pain as primary, and a therapy label is given only when it did
C9_DominanceAgrees ==
    (Scored /\ score.scoring_track = "AMBULATORY") =>
        /\ score.score_pain_total >= 25000 =>
              (HasTherapyDriver(score.pain_drivers)
                 <=> score.pain_therapy > score.pain_undercoding)
        /\ score.pain_label \in TherapyLabels =>
              score.pain_therapy > score.pain_undercoding

\* C10: an AMBULATORY record that fails the relevance gate has the pain
\* total, the pain label and the pain drivers of every record that differs
\* from it in psych_risk_ratio only
C10_PsychRiskSuppressed ==
    (Scored /\ score.scoring_track = "AMBULATORY" /\ ~RelevanceGate(row)) =>
        \A v \in PsychRiskRatios :
            LET other == calculate_row_score([row EXCEPT !.psych_risk_ratio = v])
            IN /\ other.score_pain_total = score.score_pain_total
               /\ other.pain_label = score.pain_label
               /\ other.pain_drivers = score.pain_drivers

\* the base fixture with 10 psych codes (test_therapy_gate_closes_for_irrelevant_clinic)
IrrelevantClinic == [BaseRow EXCEPT !.total_psych_codes = 10]

\* the base fixture with 100 psych codes (test_therapy_gate_opens_for_relevant_clinic)
RelevantClinic == [BaseRow EXCEPT !.total_psych_codes = 100]

\* C11: the Private Practice of the base fixture with undercoding_ratio 0.6
\* and 10 psych codes gets score_pain_total = 10, the undercoding pain of 0.6
C11_IrrelevantClinicPain ==
    (Scored /\ row = IrrelevantClinic) =>
        /\ score.scoring_track = "AMBULATORY"
        /\ score.score_pain_total = 10000
        /\ score.pain_undercoding = 10000

\* C12: the Private Practice of the base fixture with 100 psych codes,
\* psych_risk_ratio 0.2 and undercoding_ratio 0.6 has the gate open,
\* score_pain_total = 40 and a reasoning that says therapy coding dominates
C12_RelevantClinicPain ==
    (Scored /\ row = RelevantClinic) =>
        /\ score.scoring_track = "AMBULATORY"
        /\ score.pain_therapy = 40000
        /\ score.score_pain_total = 40000
        /\ \E i \in 1..Len(score.score_reasoning_pain) :
              score.score_reasoning_pain[i].note = "(therapy coding dominates)"

\* the BEHAVIORAL pain before the output rounds it, in thousandths of a point:
\* min(40, curve + bonus), bonus = min(5, total_psych_codes/1000*5) above 500 codes
BehavioralPainExact(r) ==
    Min(40000,
        score_psych_risk_continuous(r.psych_risk_ratio).score
          + (IF r.total_psych_codes # NaN /\ r.total_psych_codes > 500
             THEN Min(5000, 5 * r.total_psych_codes) ELSE 0))

\* C13 as stated: on the BEHAVIORAL track score_pain_total is exactly
\* min(40, score_psych_risk_continuous(psych_risk_ratio) + bonus)
C13_BehavioralPainExact ==
    (Scored /\ score.scoring_track = "BEHAVIORAL") =>
        score.score_pain_total = BehavioralPainExact(row)

\* C13 amended: on the BEHAVIORAL track score_pain_total is
\* min(40, score_psych_risk_continuous(psych_risk_ratio) + bonus) rounded to
\* one decimal, whatever the evaluation volume and the relevance gate are
C13_BehavioralPainRounded ==
    (Scored /\ score.scoring_track = "BEHAVIORAL") =>
        /\ score.score_pain_total = Round1(BehavioralPainExact(row), 1)
        /\ \A e \in EvalVolumes :
              calculate_row_score([row EXCEPT !.total_eval_codes = e]).score_pain_total
                = score.score_pain_total

\* a BEHAVIORAL record with the gate closed (evaluation volume missing) and a
\* bonus of 2.505 points has been given 10 + 2.5
C13_Witness ==
    /\ Scored
    /\ score.scoring_track = "BEHAVIORAL"
    /\ ~RelevanceGate(row)
    /\ row.total_psych_codes = 501
    /\ row.psych_risk_ratio = 500
    /\ score.score_pain_total = 12500

\* the gated therapy pain of a record: the psych-risk curve when the relevance
\* gate passes and the ratio is positive, 0 otherwise
GatedTherapyPain(r) ==
    IF RelevanceGate(r) /\ Read0(r.psych_risk_ratio) > 0
    THEN score_psych_risk_continuous(r.psych_risk_ratio).score
    ELSE 0

\* C14: 0 <= score_pain_total <= 40 on every track, and on the AMBULATORY
\* track score_pain_total = min(40, max(undercoding pain, gated therapy pain)
\* + procedure-alignment pain)
C14_PainBounds ==
    Scored =>
        /\ 0 <= score.score_pain_total
        /\ score.score_pain_total <= 40000
        /\ score.scoring_track = "AMBULATORY" =>
              /\ score.score_pain_total
                   = Min(40000,
                         Max(score_undercoding_continuous(Read0(row.undercoding_ratio)).score,
                             GatedTherapyPain(row))
                           + score_procedure_alignment(row).score)
              /\ score.score_pain_total
                   >= score_undercoding_continuous(Read0(row.undercoding_ratio)).score
              /\ score.score_pain_total >= GatedTherapyPain(row)

\* an AMBULATORY record whose primary signal plus procedure-alignment pain
\* exceeds 40 has been capped at 40
C14_Witness ==
    /\ Scored
    /\ score.scoring_track = "AMBULATORY"
    /\ score.pain_procedure_alignment > 0
    /\ score.pain_therapy + score.pain_procedure_alignment > 40000
    /\ score.score_pain_total = 40000

--------------------------------------------------------------------------
(* Scoring Engine: properties of the curves *)

CurveApplied == curve /= NoScore

\* 300 times the unrounded ramp 40 - (r - 0.15)/0.30*25, in thousandths of a point
UndercodingRamp300(r) ==
    40000 * (UNDERCODING_NATIONAL_AVG - UNDERCODING_SEVERE) - (r - UNDERCODING_SEVERE) * 25000

OnUndercodingRamp == 
    /\ notna(curve_ratio)
    /\ UNDERCODING_SEVERE < curve_ratio
    /\ curve_ratio < UNDERCODING_NATIONAL_AVG

\* the parts of C15 that do not involve the ramp's value: range, plateaus, monotonicity
UndercodingShape ==
    LET s == curve.undercoding.score IN
    /\ 0 <= s /\ s <= 40000
    /\ (isna(curve_ratio) \/ curve_ratio <= 0) => s = 10000
    /\ (notna(curve_ratio) /\ 0 < curve_ratio /\ curve_ratio <= UNDERCODING_SEVERE) => s = 40000
    /\ (notna(curve_ratio) /\ curve_ratio >= UNDERCODING_NATIONAL_AVG) => s = 0
    /\ (notna(curve_ratio) /\ curve_ratio > UNDERCODING_SEVERE) =>
          \A r2 \in CurveRatios \ {NaN} :
              r2 > curve_ratio => score_undercoding_continuous(r2).score <= s

PsychRiskShape ==
    LET s == curve.psych_risk.score
        r == curve_ratio
    IN
    /\ 10000 <= s /\ s <= 40000
    /\ (notna(r) /\ r >= 750) => s = 40000
    /\ (notna(r) /\ 400 <= r /\ r <= 600) => s = 10000
    /\ (notna(r) /\ 300 < r /\ r < 400) =>
          \A r2 \in 301..399 : r2 > r => score_psych_risk_continuous(r2).score <= s
    /\ (notna(r) /\ 600 < r /\ r < 750) =>
          \A r2 \in 601..749 : r2 > r => score_psych_risk_continuous(r2).score >= s
    \* r = 0.40 - f*0.10 and r2 = 0.60 + f*0.15 deviate by the same fraction f
    /\ (notna(r) /\ 300 <= r /\ r <= 400) =>
          \A r2 \in 600..750 :
              (r2 - 600) * (400 - 300) = (400 - r) * (750 - 600)
                  => score_psych_risk_continuous(r2).score = s

\* C16 as stated: for all ratios r, score_psych_risk_continuous(r) lies in
\* [10,40], is 40 at r <= 0.30 and at r >= 0.75, 10 on [0.40,0.60],
\* non-increasing on (0.30,0.40), non-decreasing on (0.60,0.75), and equal
\* fractional deviations from the plateau give equal scores
C16_PsychRiskCurve ==
    CurveApplied =>
        /\ PsychRiskShape
        /\ (notna(curve_ratio) /\ curve_ratio <= 300) => curve.psych_risk.score = 40000

\* C16, amended: the same, with the score being 40 for 0 < r <= 0.30 only
C16_PsychRiskCurvePositive ==
    CurveApplied =>
        /\ PsychRiskShape
        /\ (notna(curve_ratio) /\ 0 < curve_ratio /\ curve_ratio <= 300)
              => curve.psych_risk.score = 40000

\* half-way down the undercoding ramp: 25 points, as half-way up the audit ramp
C16_Witness ==
    /\ CurveApplied
    /\ curve_ratio = 350
    /\ curve.psych_risk.score = 25000
    /\ score_psych_risk_continuous(675).score = 25000

--------------------------------------------------------------------------
(* Scoring Engine: segment correction *)

\* the revenue columns in the order the record's revenue is looked up
RevenueColumns(r) ==
    <<r.total_revenue, r.hospital_total_revenue, r.fqhc_revenue, r.hha_revenue,
      r.real_medicare_revenue>>

\* the record's revenue figure is known and below $10,000,000
KnownRevenueBelow10M(r) ==
    \E i \in 1..5 :
        /\ notna(RevenueColumns(r)[i])
        /\ \A j \in 1..(i - 1) : isna(RevenueColumns(r)[j])
        /\ RevenueColumns(r)[i] < 10000000

\* C17: the output segment_label is 'Ambulatory Center' iff the input label is
\* 'Hospital' and the record's revenue figure is known and below $10,000,000;
\* in every other case the input label is returned unchanged
C17_SegmentDowngrade ==
    Scored =>
        /\ score.segment_label = "Ambulatory Center"
              <=> (row.segment_label = "Hospital" /\ KnownRevenueBelow10M(row))
        /\ ~(row.segment_label = "Hospital" /\ KnownRevenueBelow10M(row))
              => score.segment_label = row.segment_label

\* a Hospital whose total_revenue is missing and whose hospital_total_revenue is
\* $5,000,000 comes out as an Ambulatory Center
C17_Witness ==
    /\ Scored
    /\ row.segment_label = "Hospital"
    /\ isna(row.total_revenue)
    /\ row.hospital_total_revenue = 5000000
    /\ score.segment_label = "Ambulatory Center"

--------------------------------------------------------------------------
(* Scoring Engine: total and tier *)

\* the sum of the record's pain, fit and strategy sub-scores
SubScoreSum ==
    IF isna(score.score_fit_total) \/ isna(score.score_strat_total) THEN NaN
    ELSE score.score_pain_total + score.score_fit_total + score.score_strat_total

\* C18: for every record icp_score = min(100, pain + fit + strategy), it lies
\* in [0,100], and the tier follows from icp_score alone: Tier 1 iff >= 70,
\* Tier 2 iff in [50,70), Tier 3 iff in [30,50), Tier 4 iff < 30
C18_TotalAndTier ==
    Scored =>
        /\ score.icp_score = Min(100000, SubScoreSum)
        /\ 0 <= score.icp_score /\ score.icp_score <= 100000
        /\ score.icp_tier = "Tier 1" <=> score.icp_score >= 70000
        /\ score.icp_tier = "Tier 2" <=> (50000 <= score.icp_score /\ score.icp_score < 70000)
        /\ score.icp_tier = "Tier 3" <=> (30000 <= score.icp_score /\ score.icp_score < 50000)
        /\ score.icp_tier = "Tier 4" <=> score.icp_score < 30000

--------------------------------------------------------------------------
(* Scoring Engine: procedure alignment *)

\* score_procedure_alignment has run on the record
AlignmentScored == Scored /\ score.scoring_track = "AMBULATORY"

\* combined procedure and evaluation volume, a missing count read as 0
CombinedVolume(r) ==
    (IF isna(r.total_procedure_codes) THEN 0 ELSE r.total_procedure_codes)
    + (IF isna(r.total_eval_codes) THEN 0 ELSE r.total_eval_codes)

\* the record is one score_procedure_alignment assesses
Assessed(r) ==
    /\ r.segment_label \in {"Private Practice", "Specialty Group"}
    /\ notna(get_expected_procedure_ratio(r.taxonomy))
    /\ CombinedVolume(r) >= 50
    /\ notna(r.procedure_ratio)

Deficit(r) == get_expected_procedure_ratio(r.taxonomy) - r.procedure_ratio

\* C19: score_procedure_alignment returns a non-zero pain only for a Private
\* Practice or Specialty Group record whose taxonomy matches a specialty prefix,
\* with combined volume >= 50 and a defined procedure_ratio; then it is 0 for
\* deficit < 0.20, 10 with 'Severe procedure deficit' for deficit >= 0.40 and
\* 4 + (deficit-0.20)/0.20*6 in between; hence always 0 or in [4,10]
C19_ProcedureAlignment ==
    AlignmentScored =>
        LET pa == score_procedure_alignment(row) IN
        /\ score.pain_procedure_alignment = pa.score
        /\ pa.score # 0 => Assessed(row)
        /\ Assessed(row) =>
              /\ Deficit(row) < 200 => pa.score = 0
              /\ Deficit(row) >= 400 =>
                    (pa.score = 10000 /\ pa.reason = "Severe procedure deficit")
              /\ (200 <= Deficit(row) /\ Deficit(row) < 400) =>
                    pa.score * 200 = 4000 * 200 + (Deficit(row) - 200) * 6000
        /\ pa.score = 0 \/ (4000 <= pa.score /\ pa.score <= 10000)

--------------------------------------------------------------------------
(* Scoring Engine: reasoning strings *)

\* the sum of the '+N pts' numbers of a reasoning list, in tenths of a point
RECURSIVE SumPts(_)
SumPts(reasoning) ==
    IF reasoning = <<>> THEN 0
    ELSE (IF isna(Head(reasoning).pts) THEN 0 ELSE Head(reasoning).pts)
         + SumPts(Tail(reasoning))

\* C21: for each of the pain, fit and strategy sub-scores on every track, the
\* sub-score total of the ScoreResult equals the sum of the '+N pts' numbers
\* of the corresponding reasoning string, caps included
C21_ReasoningRoundTrip ==
    Scored =>
        /\ score.score_pain_total = 100 * SumPts(score.score_reasoning_pain)
        /\ score.score_fit_total = 100 * SumPts(score.score_reasoning_fit)
        /\ score.score_strat_total = 100 * SumPts(score.score_reasoning_strategy)

\* the revenue estimate of the scored record, at `fqhc` dollars per visit for
\* the FQHC segment, `behavioral` on the BEHAVIORAL track and `other` elsewhere
EstimatedRevenueAt(behavioral, fqhc, other) ==
    IF notna(real_revenue_of(row)) THEN score.metric_est_revenue = real_revenue_of(row)
    ELSE score.metric_est_revenue
           = score.metric_used_volume
             * (IF score.scoring_track = "BEHAVIORAL" THEN behavioral
                ELSE IF score.segment_label = "FQHC" THEN fqhc ELSE other)

\* C23 as stated: without a reported revenue in any of the five columns,
\* metric_est_revenue = used volume x 300 for FQHC-segment records and x 100
\* for every other record; a reported revenue is used unchanged
C23_EstimatedRevenue ==
    Scored =>
        IF notna(real_revenue_of(row)) THEN score.metric_est_revenue = real_revenue_of(row)
        ELSE score.metric_est_revenue
               = score.metric_used_volume * (IF score.segment_label = "FQHC" THEN 300 ELSE 100)

\* C23 amended: without a reported revenue, metric_est_revenue = used volume
\* x 150 for records on the BEHAVIORAL track, and off that track x 300 for
\* FQHC-segment records and x 100 for every other; a reported revenue is
\* used unchanged
C23_EstimatedRevenueByTrack == Scored => EstimatedRevenueAt(150, 300, 100)

\* an FQHC with a counseling name and no revenue column: 10,000 visits at $150
C23_Witness ==
    /\ Scored
    /\ isna(real_revenue_of(row))
    /\ score.segment_label = "FQHC"
    /\ score.scoring_track = "BEHAVIORAL"
    /\ score.metric_used_volume = 10000
    /\ score.metric_est_revenue = 1500000

OnPostAcute == Scored /\ score.scoring_track = "POST_ACUTE"

\* the POST_ACUTE pain outside the ramp: 40 below 0, 15 from 0.05, 10 when
\* the margin is missing
PostAcuteFlats ==
    /\ isna(row.net_margin) => score.score_pain_total = 10000
    /\ (notna(row.net_margin) /\ row.net_margin < 0) => score.score_pain_total = 40000
    /\ (notna(row.net_margin) /\ row.net_margin >= 500) => score.score_pain_total = 15000

OnMarginRamp == notna(row.net_margin) /\ row.net_margin >= 0 /\ row.net_margin < 500

\* 500 times the unrounded ramp 25 + (0.05 - m)/0.05*15, in thousandths of a point
MarginRamp500 == 25000 * 500 + (500 - row.net_margin) * 15000

\* the POST_ACUTE pain of the record with another margin
PainAtMargin(m) ==
    score_on_track([row EXCEPT !.net_margin = m], "POST_ACUTE").score_pain_total

\* over known margins the pain never rises as the margin grows
PostAcuteMonotone ==
    notna(row.net_margin) =>
        \A m \in Margins : m >= row.net_margin => PainAtMargin(m) <= score.score_pain_total

\* C24 as stated: on the POST_ACUTE track the pain is 40 below margin 0,
\* exactly 25 + (0.05 - margin)/0.05*15 on [0, 0.05), 15 from 0.05 and 10
\* without a margin; it never rises with the margin and is never in (15, 25]
C24_PostAcuteExact ==
    OnPostAcute =>
        /\ PostAcuteFlats
        /\ OnMarginRamp => 500 * score.score_pain_total = MarginRamp500
        /\ PostAcuteMonotone
        /\ notna(row.net_margin) =>
              ~(score.score_pain_total > 15000 /\ score.score_pain_total <= 25000)

\* C24 amended: as stated, with the ramp value rounded to one decimal, so
\* that next to 0.05 the pain may be 25.0: it is never in (15, 25)
C24_PostAcuteRounded ==
    OnPostAcute =>
        /\ PostAcuteFlats
        /\ OnMarginRamp =>
              /\ score.score_pain_total % 100 = 0
              /\ 2 * (500 * score.score_pain_total - MarginRamp500) <= 100 * 500
              /\ 2 * (MarginRamp500 - 500 * score.score_pain_total) <= 100 * 500
        /\ PostAcuteMonotone
        /\ notna(row.net_margin) =>
              ~(score.score_pain_total > 15000 /\ score.score_pain_total < 25000)

\* a margin of 4.99%: the ramp gives 25.03, the pain is 25.0
C24_Witness ==
    /\ OnPostAcute
    /\ row.net_margin = 499
    /\ score.score_pain_total = 25000

\* an AMBULATORY record with no gated pain: undercoding at or above the
\* national average, the therapy gate closed, no procedure-alignment pain
NoGatedPain ==
    /\ Scored
    /\ score.scoring_track = "AMBULATORY"
    /\ undercoding_of(row) >= UNDERCODING_NATIONAL_AVG
    /\ ~therapy_gate(row)
    /\ score.pain_procedure_alignment = 0
    /\ score.score_pain_total = 0

\* C27: an AMBULATORY record with undercoding_ratio >= 0.45, the therapy
\* gate closed and procedure-alignment pain 0 is labelled 'Low Pain - Strong
\* Documentation'
C27_WinningLabel ==
    NoGatedPain => score.pain_label = "Low Pain - Strong Documentation"

\* C28: track selection uses the corrected segment: a record whose output
\* segment_label is 'Ambulatory Center' is never scored on the POST_ACUTE track
C28_TrackOfCorrectedSegment ==
    (Scored /\ score.segment_label = "Ambulatory Center")
        => score.scoring_track # "POST_ACUTE"

\* score_fit_align + score_fit_complex + score_fit_chaos + score_fit_risk
\* + score_fit_mips + score_fit_hpsa_mua of the scored record
FitBreakdownSum ==
    LET b == score.score_fit_breakdown
    IN b.align + b.complex + b.chaos + b.risk + b.mips + b.hpsa_mua

KnownProviderCount == notna(row.npi_count)

\* C30: on every track the reported fit breakdown adds up to score_fit_total,
\* and score_fit_total is at most 30 (stated for the records whose provider
\* count is known; C18 covers the others)
C30_FitBreakdown ==
    (Scored /\ KnownProviderCount) =>
        /\ score.score_fit_total = FitBreakdownSum
        /\ score.score_fit_total <= 30000

--------------------------------------------------------------------------
(* Scoring Engine: properties of whole-table runs *)

\* the result of each record when it is the first one scored
FirstCallResult == [r \in BatchRows |-> row_score_call(ZeroStats, r).result]

ProcedureHeavy(r) ==
    /\ r.segment_label \in {"Private Practice", "Specialty Group"}
    /\ notna(get_expected_procedure_ratio(r.taxonomy))

OutcomeCounters(st) == <<st.has_data, st.missing_data, st.low_volume>>

\* what one procedure-heavy call may do to the three outcome counters
OneOutcome(before, after, r) ==
    LET b == OutcomeCounters(before)
        a == OutcomeCounters(after)
        claims == (IF isna(r.total_procedure_codes) THEN 0 ELSE r.total_procedure_codes)
                  + (IF isna(r.total_eval_codes) THEN 0 ELSE r.total_eval_codes)
    IN /\ \E k \in 1..3 : a = [b EXCEPT ![k] = b[k] + 1]
       /\ claims < 50 => a[3] = b[3] + 1

\* C29: the data-quality counters add up after every sequence of calls:
\* heavy = has_data + missing_data + low_volume = sum of by_specialty,
\* missing_by_specialty[s] <= by_specialty[s]; and from every such state a
\* procedure-heavy call moves exactly one outcome counter (low_volume when
\* under 50 claims, whatever the ratio), any other call moves nothing
C29_CounterInvariants ==
    /\ stats.procedure_heavy_specialties
         = stats.has_data + stats.missing_data + stats.low_volume
    /\ stats.procedure_heavy_specialties
         = SumFn(stats.by_specialty, DOMAIN stats.by_specialty)
    /\ \A s \in DOMAIN stats.missing_by_specialty :
          /\ s \in DOMAIN stats.by_specialty
          /\ stats.missing_by_specialty[s] <= stats.by_specialty[s]
    /\ \A r \in BatchRows :
          IF ProcedureHeavy(r)
          THEN /\ OneOutcome(stats, StatsAfter(stats, r), r)
               /\ StatsAfter(stats, r).procedure_heavy_specialties
                    = stats.procedure_heavy_specialties + 1
          ELSE StatsAfter(stats, r) = stats

\* each of the three outcomes counted once, the low-volume one for a record
\* that also lacks its procedure ratio
C29_Witness ==
    /\ stats.has_data = 1
    /\ stats.missing_data = 1
    /\ stats.low_volume = 1
    /\ \E i \in 1..Len(results) :
          /\ isna(batch[i].procedure_ratio)
          /\ batch[i].total_procedure_codes = 10

--------------------------------------------------------------------------
(* Both programs: what a run leaves on disk *)

\* a run of either program, from its start
InitRuns == InitAgg \/ InitBatch

NextRuns == NextAgg \/ NextBatch

SpecRuns == InitRuns /\ [][NextRuns]_vars

\* C26: no output file without the whole input processed.  The scorer
\* writes nothing when its input table is missing, and writes only with a
\* result for every row; the aggregator writes nothing when the utilization
\* file is missing or holds no evaluation target row, and writes only after
\* the chunk loop has read the whole file
C26_AllOrNothing ==
    /\ ~input_exists => ~output.written
    /\ batch_pc = "aborted" => ~output.written
    /\ output.written => (batch_pc = "saved" /\ Len(results) = Len(batch))
    /\ ~util_file_exists => ~agg_output.written
    /\ agg_pc = "failed" => ~agg_output.written
    /\ (agg_pc = "done" /\ Filtered(consumed) = <<>>) => ~agg_output.written
    /\ agg_output.written =>
          (agg_pc = "done" /\ total_rows = Len(consumed)
           /\ agg_output.table = SingleChunkResult(consumed, bridge).rows)

\* the aggregator has read a utilization file that holds procedure rows
\* only, and has ended without an output file
C26_Witness ==
    /\ agg_pc = "done"
    /\ Len(consumed) >= 2
    /\ ProcedureFiltered(consumed) # <<>>
    /\ Filtered(consumed) = <<>>
    /\ ~agg_output.written

==========================================================================
